---- MODULE Spec2Model ----
(***************************************************************************)
(* Model of the Move module pact_addr::pact (stake-backed commitments with *)
(* challenges and group pacts).  Every entry function is one atomic        *)
(* transaction: it either aborts with the code of its first failing        *)
(* assertion, leaving the ledger untouched, or runs to completion.         *)
(***************************************************************************)
EXTENDS Integers, Sequences, FiniteSets, TLC

\* ------------------------------------------------------------------
\* Bounds of the model
\* ------------------------------------------------------------------
MaxTime == 2
MaxPacts == 2
MaxGroupSize == 2
InitialBalance == 1000005
\* width, in bits, of the scaled machine word on which the settlement
\* arithmetic is replayed (the program's word has 64)
WordBits == 8

\* ------------------------------------------------------------------
\* Program constants
\* ------------------------------------------------------------------
MINIMUM_STAKE == 1000000
SLASH_PERCENTAGE_RETURNED == 90
STATUS_ACTIVE == 0
STATUS_PASSED == 1
STATUS_FAILED == 2

OK == "OK"
E_NOT_INITIALIZED == "E_NOT_INITIALIZED"
E_ALREADY_INITIALIZED == "E_ALREADY_INITIALIZED"
E_PACT_NOT_FOUND == "E_PACT_NOT_FOUND"
E_PACT_NOT_ACTIVE == "E_PACT_NOT_ACTIVE"
E_DEADLINE_NOT_REACHED == "E_DEADLINE_NOT_REACHED"
E_DEADLINE_ALREADY_PASSED == "E_DEADLINE_ALREADY_PASSED"
E_INSUFFICIENT_STAKE == "E_INSUFFICIENT_STAKE"
E_INVALID_TOKEN_ADDRESS == "E_INVALID_TOKEN_ADDRESS"
E_UNAUTHORIZED == "E_UNAUTHORIZED"
E_ALREADY_CHALLENGED == "E_ALREADY_CHALLENGED"
E_GROUP_FULL == "E_GROUP_FULL"
E_NOT_GROUP_PACT == "E_NOT_GROUP_PACT"
E_ALREADY_IN_GROUP == "E_ALREADY_IN_GROUP"
\* abort raised by coin::withdraw / coin::extract when the coin is too small
EINSUFFICIENT_BALANCE == "EINSUFFICIENT_BALANCE"

\* ------------------------------------------------------------------
\* Input domains
\* ------------------------------------------------------------------
pact_addr == "pact_addr"
Addrs == {pact_addr, "alice", "bob"}
\* the accounts that stake; any account may initialize or resolve
Users == {"alice", "bob"}
Tokens == {"token"}
Stakes == {MINIMUM_STAKE - 1, MINIMUM_STAKE, MINIMUM_STAKE + 5}
StartBalances == {1, 2}
Balances == {1, 2}
Deadlines == 0..MaxTime
GroupSizes == 1..MaxGroupSize
Indexes == 0..(MaxPacts - 1)

RECURSIVE SeqsUpTo(_, _)
SeqsUpTo(S, n) ==
  IF n = 0 THEN {<<>>}
  ELSE LET shorter == SeqsUpTo(S, n - 1)
       IN shorter \cup {Append(s, x) : s \in {t \in shorter : Len(t) = n - 1}, x \in S}

BalanceVectors == SeqsUpTo(Balances, MaxGroupSize)

\* ------------------------------------------------------------------
\* State
\* ------------------------------------------------------------------
VARIABLES
  now,                        \* timestamp::now_seconds()
  balance,                    \* CoinStore<AptosCoin> of every account
  registry_exists,            \* exists<PactRegistry>(@pact_addr)
  pact_counter,               \* PactRegistry.pact_counter
  protocol_fees,              \* value of PactRegistry.protocol_fees
  user_pacts,                 \* UserPacts.pacts of every account that has one
  pact_created_events,
  pact_resolved_events,
  pact_challenged_events,
  group_pact_created_events,
  group_member_joined_events,
  last,                       \* the latest committed transaction
  probe                       \* bookkeeping of a two-order experiment (SpecOrder)

ledger == <<balance, registry_exists, pact_counter, protocol_fees, user_pacts,
            pact_created_events, pact_resolved_events, pact_challenged_events,
            group_pact_created_events, group_member_joined_events>>

vars == <<now, ledger, last, probe>>

\* ------------------------------------------------------------------
\* Ledger primitive (aptos_framework::coin) as used by the module
\* ------------------------------------------------------------------
deposit(bal, addr, amount) == [bal EXCEPT ![addr] = @ + amount]

\* variant: the coins are put in escrow without being taken from the account
withdraw_nothing(bal, addr, amount) == bal

withdraw(bal, addr, amount) == [bal EXCEPT ![addr] = @ - amount]

\* ------------------------------------------------------------------
\* Helpers of the module
\* ------------------------------------------------------------------
exists_UserPacts(addr) == addr \in DOMAIN user_pacts

pacts_of(addr) == IF exists_UserPacts(addr) THEN user_pacts[addr] ELSE <<>>

\* vector index i (0-based) of a creator's pacts
borrow_pact(creator_addr, pact_index) == user_pacts[creator_addr][pact_index + 1]

\* variant: every write to a pact stamps its deadline with the current time
store_pact_stamped(creator_addr, pact_index, pact) ==
  [user_pacts EXCEPT ![creator_addr][pact_index + 1] = [pact EXCEPT !.deadline = now]]

store_pact(creator_addr, pact_index, pact) ==
  [user_pacts EXCEPT ![creator_addr][pact_index + 1] = pact]

\* init_user_pacts followed by vector::push_back on the creator's pacts
\* variant: the new pact is inserted at the front of the creator's vector
push_pact_front(creator_addr, pact) ==
  IF exists_UserPacts(creator_addr)
  THEN [user_pacts EXCEPT ![creator_addr] = <<pact>> \o @]
  ELSE [a \in DOMAIN user_pacts \cup {creator_addr} |->
          IF a = creator_addr THEN <<pact>> ELSE user_pacts[a]]

push_pact(creator_addr, pact) ==
  IF exists_UserPacts(creator_addr)
  THEN [user_pacts EXCEPT ![creator_addr] = Append(@, pact)]
  ELSE [a \in DOMAIN user_pacts \cup {creator_addr} |->
          IF a = creator_addr THEN <<pact>> ELSE user_pacts[a]]

\* variant: the creator of a failed pact is returned the whole stake
slash_returned_in_full(stake_amount) == stake_amount

slash_returned(stake_amount) == (stake_amount * SLASH_PERCENTAGE_RETURNED) \div 100

RECURSIVE check_all_members_passed_from(_, _, _)
check_all_members_passed_from(group_members, member_balances, i) ==
  IF i > Len(group_members) THEN TRUE
  ELSE IF member_balances[i] < group_members[i].start_balance THEN FALSE
  ELSE check_all_members_passed_from(group_members, member_balances, i + 1)

check_all_members_passed(group_members, member_balances) ==
  check_all_members_passed_from(group_members, member_balances, 1)

RECURSIVE calculate_total_stake_from(_, _)
calculate_total_stake_from(group_members, i) ==
  IF i > Len(group_members) THEN 0
  ELSE group_members[i].stake_amount + calculate_total_stake_from(group_members, i + 1)

calculate_total_stake(group_members) == calculate_total_stake_from(group_members, 1)

RECURSIVE calculate_failed_stakes_from(_, _, _)
calculate_failed_stakes_from(group_members, member_balances, i) ==
  IF i > Len(group_members) THEN 0
  ELSE (IF member_balances[i] < group_members[i].start_balance
        THEN group_members[i].stake_amount ELSE 0)
       + calculate_failed_stakes_from(group_members, member_balances, i + 1)

\* variant: the whole pot is reported as forfeited
calculate_failed_stakes_whole_pot(group_members, member_balances) ==
  calculate_total_stake(group_members)

calculate_failed_stakes(group_members, member_balances) ==
  calculate_failed_stakes_from(group_members, member_balances, 1)

\* the reported balances are kept for a resolution only
Call(op, creator, index) ==
  [op |-> op, creator |-> creator, index |-> index,
   current_balance |-> 0, member_balances |-> <<>>]

\* an aborted transaction is rolled back as a whole
Abort == UNCHANGED vars

\* no experiment is under way
Idle == [phase |-> "run"]

\* ------------------------------------------------------------------
\* Initial state: accounts funded, module published, nothing initialised
\* ------------------------------------------------------------------
Init ==
  /\ now = 0
  /\ balance = [a \in Addrs |-> InitialBalance]
  /\ registry_exists = FALSE
  /\ pact_counter = 0
  /\ protocol_fees = 0
  /\ user_pacts = [a \in {} |-> <<>>]
  /\ pact_created_events = <<>>
  /\ pact_resolved_events = <<>>
  /\ pact_challenged_events = <<>>
  /\ group_pact_created_events = <<>>
  /\ group_member_joined_events = <<>>
  /\ last = Call("none", pact_addr, 0)
  /\ probe = Idle

\* ------------------------------------------------------------------
\* initialize
\* ------------------------------------------------------------------
\* variant: any signer may initialize
initialize_abort_anyone(account_addr) ==
  IF registry_exists THEN E_ALREADY_INITIALIZED
  ELSE OK

initialize_abort(account_addr) ==
  IF account_addr # pact_addr THEN E_UNAUTHORIZED
  ELSE IF registry_exists THEN E_ALREADY_INITIALIZED
  ELSE OK

initialize(account_addr) ==
  LET err == initialize_abort(account_addr) IN
  IF err # OK THEN Abort
  ELSE /\ registry_exists' = TRUE
       /\ pact_counter' = 0
       /\ protocol_fees' = 0
       /\ pact_created_events' = <<>>
       /\ pact_resolved_events' = <<>>
       /\ pact_challenged_events' = <<>>
       /\ group_pact_created_events' = <<>>
       /\ group_member_joined_events' = <<>>
       /\ last' = Call("initialize", account_addr, 0)
       /\ UNCHANGED <<now, balance, user_pacts>>

\* ------------------------------------------------------------------
\* create_pact
\* ------------------------------------------------------------------
\* variant: the deadline is checked before the stake
create_pact_abort_deadline_first(creator_addr, stake_amount, deadline_seconds) ==
  IF ~(deadline_seconds > now) THEN E_DEADLINE_ALREADY_PASSED
  ELSE IF ~(stake_amount >= MINIMUM_STAKE) THEN E_INSUFFICIENT_STAKE
  ELSE IF ~registry_exists THEN E_NOT_INITIALIZED
  ELSE IF balance[creator_addr] < stake_amount THEN EINSUFFICIENT_BALANCE
  ELSE OK

create_pact_abort(creator_addr, stake_amount, deadline_seconds) ==
  IF ~(stake_amount >= MINIMUM_STAKE) THEN E_INSUFFICIENT_STAKE
  ELSE IF ~(deadline_seconds > now) THEN E_DEADLINE_ALREADY_PASSED
  ELSE IF ~registry_exists THEN E_NOT_INITIALIZED
  ELSE IF balance[creator_addr] < stake_amount THEN EINSUFFICIENT_BALANCE
  ELSE OK

\* variant: the threshold and the stake are stored in each other's field
new_solo_pact_swapped(creator_addr, token_address, start_balance, stake_amount, deadline_seconds) ==
  [creator |-> creator_addr,
   token_address |-> token_address,
   start_balance |-> stake_amount,
   stake_amount |-> start_balance,
   deadline |-> deadline_seconds,
   status |-> STATUS_ACTIVE,
   escrowed_stake |-> stake_amount,
   challenge |-> <<>>,
   is_group |-> FALSE,
   max_group_size |-> 0,
   group_members |-> <<>>]

new_solo_pact(creator_addr, token_address, start_balance, stake_amount, deadline_seconds) ==
  [creator |-> creator_addr,
   token_address |-> token_address,
   start_balance |-> start_balance,
   stake_amount |-> stake_amount,
   deadline |-> deadline_seconds,
   status |-> STATUS_ACTIVE,
   escrowed_stake |-> stake_amount,
   challenge |-> <<>>,
   is_group |-> FALSE,
   max_group_size |-> 0,
   group_members |-> <<>>]

\* variant: the counter is read for the pact id but not advanced
create_pact_reuses_id(creator_addr, token_address, start_balance, stake_amount, deadline_seconds) ==
  LET err == create_pact_abort(creator_addr, stake_amount, deadline_seconds)
      pact_index == Len(pacts_of(creator_addr))
      pact_id == pact_counter
  IN
  /\ pact_counter < MaxPacts
  /\ IF err # OK THEN Abort
     ELSE /\ balance' = withdraw(balance, creator_addr, stake_amount)
          /\ pact_counter' = pact_id
          /\ user_pacts' = push_pact(creator_addr,
                 new_solo_pact(creator_addr, token_address, start_balance,
                               stake_amount, deadline_seconds))
          /\ pact_created_events' = Append(pact_created_events,
                 [creator |-> creator_addr, pact_id |-> pact_id,
                  token_address |-> token_address, start_balance |-> start_balance,
                  stake_amount |-> stake_amount, deadline |-> deadline_seconds])
          /\ last' = Call("create_pact", creator_addr, pact_index)
          /\ UNCHANGED <<now, registry_exists, protocol_fees, pact_resolved_events,
                         pact_challenged_events, group_pact_created_events,
                         group_member_joined_events>>

create_pact(creator_addr, token_address, start_balance, stake_amount, deadline_seconds) ==
  LET err == create_pact_abort(creator_addr, stake_amount, deadline_seconds)
      pact_index == Len(pacts_of(creator_addr))
      pact_id == pact_counter
  IN
  /\ pact_counter < MaxPacts
  /\ IF err # OK THEN Abort
     ELSE /\ balance' = withdraw(balance, creator_addr, stake_amount)
          /\ pact_counter' = pact_id + 1
          /\ user_pacts' = push_pact(creator_addr,
                 new_solo_pact(creator_addr, token_address, start_balance,
                               stake_amount, deadline_seconds))
          /\ pact_created_events' = Append(pact_created_events,
                 [creator |-> creator_addr, pact_id |-> pact_id,
                  token_address |-> token_address, start_balance |-> start_balance,
                  stake_amount |-> stake_amount, deadline |-> deadline_seconds])
          /\ last' = Call("create_pact", creator_addr, pact_index)
          /\ UNCHANGED <<now, registry_exists, protocol_fees, pact_resolved_events,
                         pact_challenged_events, group_pact_created_events,
                         group_member_joined_events>>

\* ------------------------------------------------------------------
\* create_group_pact
\* ------------------------------------------------------------------
\* variant: a deadline equal to the current time is accepted
create_group_pact_abort_at_deadline(creator_addr, stake_amount, deadline_seconds, max_group_size) ==
  IF ~(stake_amount >= MINIMUM_STAKE) THEN E_INSUFFICIENT_STAKE
  ELSE IF ~(deadline_seconds >= now) THEN E_DEADLINE_ALREADY_PASSED
  ELSE IF ~(max_group_size >= 2) THEN E_INVALID_TOKEN_ADDRESS
  ELSE IF ~registry_exists THEN E_NOT_INITIALIZED
  ELSE IF balance[creator_addr] < stake_amount THEN EINSUFFICIENT_BALANCE
  ELSE OK

\* variant: the group size is not validated
create_group_pact_abort_any_size(creator_addr, stake_amount, deadline_seconds, max_group_size) ==
  IF ~(stake_amount >= MINIMUM_STAKE) THEN E_INSUFFICIENT_STAKE
  ELSE IF ~(deadline_seconds > now) THEN E_DEADLINE_ALREADY_PASSED
  ELSE IF ~registry_exists THEN E_NOT_INITIALIZED
  ELSE IF balance[creator_addr] < stake_amount THEN EINSUFFICIENT_BALANCE
  ELSE OK

create_group_pact_abort(creator_addr, stake_amount, deadline_seconds, max_group_size) ==
  IF ~(stake_amount >= MINIMUM_STAKE) THEN E_INSUFFICIENT_STAKE
  ELSE IF ~(deadline_seconds > now) THEN E_DEADLINE_ALREADY_PASSED
  ELSE IF ~(max_group_size >= 2) THEN E_INVALID_TOKEN_ADDRESS
  ELSE IF ~registry_exists THEN E_NOT_INITIALIZED
  ELSE IF balance[creator_addr] < stake_amount THEN EINSUFFICIENT_BALANCE
  ELSE OK

\* variant: the stake and the threshold are recorded in each other's field
new_group_member_swapped(member_addr, stake_amount, start_balance) ==
  [member |-> member_addr,
   stake_amount |-> start_balance,
   escrowed_stake |-> stake_amount,
   start_balance |-> stake_amount]

new_group_member(member_addr, stake_amount, start_balance) ==
  [member |-> member_addr,
   stake_amount |-> stake_amount,
   escrowed_stake |-> stake_amount,
   start_balance |-> start_balance]

\* variant: the creator's stake is also booked in the pact's own escrow
new_group_pact_pooled(creator_addr, token_address, start_balance, stake_amount, deadline_seconds, max_group_size) ==
  [creator |-> creator_addr,
   token_address |-> token_address,
   start_balance |-> start_balance,
   stake_amount |-> stake_amount,
   deadline |-> deadline_seconds,
   status |-> STATUS_ACTIVE,
   escrowed_stake |-> stake_amount,
   challenge |-> <<>>,
   is_group |-> TRUE,
   max_group_size |-> max_group_size,
   group_members |-> <<new_group_member(creator_addr, stake_amount, start_balance)>>]

new_group_pact(creator_addr, token_address, start_balance, stake_amount, deadline_seconds, max_group_size) ==
  [creator |-> creator_addr,
   token_address |-> token_address,
   start_balance |-> start_balance,
   stake_amount |-> stake_amount,
   deadline |-> deadline_seconds,
   status |-> STATUS_ACTIVE,
   escrowed_stake |-> 0,
   challenge |-> <<>>,
   is_group |-> TRUE,
   max_group_size |-> max_group_size,
   group_members |-> <<new_group_member(creator_addr, stake_amount, start_balance)>>]

create_group_pact(creator_addr, token_address, start_balance, stake_amount, deadline_seconds, max_group_size) ==
  LET err == create_group_pact_abort(creator_addr, stake_amount, deadline_seconds,
                                     max_group_size)
      pact_index == Len(pacts_of(creator_addr))
      pact_id == pact_counter
  IN
  /\ pact_counter < MaxPacts
  /\ IF err # OK THEN Abort
     ELSE /\ balance' = withdraw(balance, creator_addr, stake_amount)
          /\ pact_counter' = pact_id + 1
          /\ user_pacts' = push_pact(creator_addr,
                 new_group_pact(creator_addr, token_address, start_balance,
                                stake_amount, deadline_seconds, max_group_size))
          /\ group_pact_created_events' = Append(group_pact_created_events,
                 [creator |-> creator_addr, pact_id |-> pact_id,
                  token_address |-> token_address, start_balance |-> start_balance,
                  stake_amount |-> stake_amount, deadline |-> deadline_seconds,
                  max_group_size |-> max_group_size])
          /\ last' = Call("create_group_pact", creator_addr, pact_index)
          /\ UNCHANGED <<now, registry_exists, protocol_fees, pact_created_events,
                         pact_resolved_events, pact_challenged_events,
                         group_member_joined_events>>

\* ------------------------------------------------------------------
\* challenge_pact
\* ------------------------------------------------------------------
\* variant: a challenge is accepted at the deadline itself
challenge_pact_abort_at_deadline(challenger_addr, creator_addr, pact_index, challenge_stake) ==
  IF ~exists_UserPacts(creator_addr) THEN E_PACT_NOT_FOUND
  ELSE IF ~(challenge_stake >= MINIMUM_STAKE) THEN E_INSUFFICIENT_STAKE
  ELSE IF ~(challenger_addr # creator_addr) THEN E_UNAUTHORIZED
  ELSE IF ~(pact_index < Len(user_pacts[creator_addr])) THEN E_PACT_NOT_FOUND
  ELSE LET pact == borrow_pact(creator_addr, pact_index) IN
       IF ~(pact.status = STATUS_ACTIVE) THEN E_PACT_NOT_ACTIVE
       ELSE IF ~(now <= pact.deadline) THEN E_DEADLINE_ALREADY_PASSED
       ELSE IF ~(Len(pact.challenge) = 0) THEN E_ALREADY_CHALLENGED
       ELSE IF balance[challenger_addr] < challenge_stake THEN EINSUFFICIENT_BALANCE
       ELSE OK

\* variant: a pact that already has a challenge can be challenged again
challenge_pact_abort_again(challenger_addr, creator_addr, pact_index, challenge_stake) ==
  IF ~exists_UserPacts(creator_addr) THEN E_PACT_NOT_FOUND
  ELSE IF ~(challenge_stake >= MINIMUM_STAKE) THEN E_INSUFFICIENT_STAKE
  ELSE IF ~(challenger_addr # creator_addr) THEN E_UNAUTHORIZED
  ELSE IF ~(pact_index < Len(user_pacts[creator_addr])) THEN E_PACT_NOT_FOUND
  ELSE LET pact == borrow_pact(creator_addr, pact_index) IN
       IF ~(pact.status = STATUS_ACTIVE) THEN E_PACT_NOT_ACTIVE
       ELSE IF ~(now < pact.deadline) THEN E_DEADLINE_ALREADY_PASSED
       ELSE IF balance[challenger_addr] < challenge_stake THEN EINSUFFICIENT_BALANCE
       ELSE OK

\* variant: the status of the pact is not examined
challenge_pact_abort_any_status(challenger_addr, creator_addr, pact_index, challenge_stake) ==
  IF ~exists_UserPacts(creator_addr) THEN E_PACT_NOT_FOUND
  ELSE IF ~(challenge_stake >= MINIMUM_STAKE) THEN E_INSUFFICIENT_STAKE
  ELSE IF ~(challenger_addr # creator_addr) THEN E_UNAUTHORIZED
  ELSE IF ~(pact_index < Len(user_pacts[creator_addr])) THEN E_PACT_NOT_FOUND
  ELSE LET pact == borrow_pact(creator_addr, pact_index) IN
       IF ~(now < pact.deadline) THEN E_DEADLINE_ALREADY_PASSED
       ELSE IF ~(Len(pact.challenge) = 0) THEN E_ALREADY_CHALLENGED
       ELSE IF balance[challenger_addr] < challenge_stake THEN EINSUFFICIENT_BALANCE
       ELSE OK

challenge_pact_abort(challenger_addr, creator_addr, pact_index, challenge_stake) ==
  IF ~exists_UserPacts(creator_addr) THEN E_PACT_NOT_FOUND
  ELSE IF ~(challenge_stake >= MINIMUM_STAKE) THEN E_INSUFFICIENT_STAKE
  ELSE IF ~(challenger_addr # creator_addr) THEN E_UNAUTHORIZED
  ELSE IF ~(pact_index < Len(user_pacts[creator_addr])) THEN E_PACT_NOT_FOUND
  ELSE LET pact == borrow_pact(creator_addr, pact_index) IN
       IF ~(pact.status = STATUS_ACTIVE) THEN E_PACT_NOT_ACTIVE
       ELSE IF ~(now < pact.deadline) THEN E_DEADLINE_ALREADY_PASSED
       ELSE IF ~(Len(pact.challenge) = 0) THEN E_ALREADY_CHALLENGED
       ELSE IF balance[challenger_addr] < challenge_stake THEN EINSUFFICIENT_BALANCE
       ELSE OK

challenge_pact(challenger_addr, creator_addr, pact_index, challenge_stake) ==
  LET err == challenge_pact_abort(challenger_addr, creator_addr, pact_index,
                                  challenge_stake) IN
  IF err # OK THEN Abort
  ELSE LET pact == borrow_pact(creator_addr, pact_index)
           challenge == [challenger |-> challenger_addr,
                         challenge_stake |-> challenge_stake,
                         escrowed_challenge |-> challenge_stake]
       IN
       /\ balance' = withdraw(balance, challenger_addr, challenge_stake)
       /\ user_pacts' = store_pact(creator_addr, pact_index,
              [pact EXCEPT !.challenge = Append(@, challenge)])
       /\ pact_challenged_events' = Append(pact_challenged_events,
              [creator |-> creator_addr, pact_id |-> pact_index,
               challenger |-> challenger_addr, challenge_stake |-> challenge_stake])
       /\ last' = Call("challenge_pact", creator_addr, pact_index)
       /\ UNCHANGED <<now, registry_exists, pact_counter, protocol_fees,
                      pact_created_events, pact_resolved_events,
                      group_pact_created_events, group_member_joined_events>>

\* ------------------------------------------------------------------
\* join_group_pact
\* ------------------------------------------------------------------
RECURSIVE already_in_group_from(_, _, _)
already_in_group_from(group_members, member_addr, i) ==
  IF i > Len(group_members) THEN FALSE
  ELSE IF group_members[i].member = member_addr THEN TRUE
  ELSE already_in_group_from(group_members, member_addr, i + 1)

\* variant: a group at capacity takes one more member
join_group_pact_abort_over_capacity(member_addr, creator_addr, pact_index, stake_amount) ==
  IF ~exists_UserPacts(creator_addr) THEN E_PACT_NOT_FOUND
  ELSE IF ~(stake_amount >= MINIMUM_STAKE) THEN E_INSUFFICIENT_STAKE
  ELSE IF ~(pact_index < Len(user_pacts[creator_addr])) THEN E_PACT_NOT_FOUND
  ELSE LET pact == borrow_pact(creator_addr, pact_index) IN
       IF ~pact.is_group THEN E_NOT_GROUP_PACT
       ELSE IF ~(pact.status = STATUS_ACTIVE) THEN E_PACT_NOT_ACTIVE
       ELSE IF ~(now < pact.deadline) THEN E_DEADLINE_ALREADY_PASSED
       ELSE IF ~(Len(pact.group_members) <= pact.max_group_size) THEN E_GROUP_FULL
       ELSE IF already_in_group_from(pact.group_members, member_addr, 1)
            THEN E_ALREADY_IN_GROUP
       ELSE IF balance[member_addr] < stake_amount THEN EINSUFFICIENT_BALANCE
       ELSE OK

\* variant: joining is still possible at the very second of the deadline
join_group_pact_abort_at_deadline(member_addr, creator_addr, pact_index, stake_amount) ==
  IF ~exists_UserPacts(creator_addr) THEN E_PACT_NOT_FOUND
  ELSE IF ~(stake_amount >= MINIMUM_STAKE) THEN E_INSUFFICIENT_STAKE
  ELSE IF ~(pact_index < Len(user_pacts[creator_addr])) THEN E_PACT_NOT_FOUND
  ELSE LET pact == borrow_pact(creator_addr, pact_index) IN
       IF ~pact.is_group THEN E_NOT_GROUP_PACT
       ELSE IF ~(pact.status = STATUS_ACTIVE) THEN E_PACT_NOT_ACTIVE
       ELSE IF ~(now <= pact.deadline) THEN E_DEADLINE_ALREADY_PASSED
       ELSE IF ~(Len(pact.group_members) < pact.max_group_size) THEN E_GROUP_FULL
       ELSE IF already_in_group_from(pact.group_members, member_addr, 1)
            THEN E_ALREADY_IN_GROUP
       ELSE IF balance[member_addr] < stake_amount THEN EINSUFFICIENT_BALANCE
       ELSE OK

join_group_pact_abort(member_addr, creator_addr, pact_index, stake_amount) ==
  IF ~exists_UserPacts(creator_addr) THEN E_PACT_NOT_FOUND
  ELSE IF ~(stake_amount >= MINIMUM_STAKE) THEN E_INSUFFICIENT_STAKE
  ELSE IF ~(pact_index < Len(user_pacts[creator_addr])) THEN E_PACT_NOT_FOUND
  ELSE LET pact == borrow_pact(creator_addr, pact_index) IN
       IF ~pact.is_group THEN E_NOT_GROUP_PACT
       ELSE IF ~(pact.status = STATUS_ACTIVE) THEN E_PACT_NOT_ACTIVE
       ELSE IF ~(now < pact.deadline) THEN E_DEADLINE_ALREADY_PASSED
       ELSE IF ~(Len(pact.group_members) < pact.max_group_size) THEN E_GROUP_FULL
       ELSE IF already_in_group_from(pact.group_members, member_addr, 1)
            THEN E_ALREADY_IN_GROUP
       ELSE IF balance[member_addr] < stake_amount THEN EINSUFFICIENT_BALANCE
       ELSE OK

join_group_pact(member_addr, creator_addr, pact_index, stake_amount, start_balance) ==
  LET err == join_group_pact_abort(member_addr, creator_addr, pact_index, stake_amount) IN
  IF err # OK THEN Abort
  ELSE LET pact == borrow_pact(creator_addr, pact_index) IN
       /\ balance' = withdraw(balance, member_addr, stake_amount)
       /\ user_pacts' = store_pact(creator_addr, pact_index,
              [pact EXCEPT !.group_members =
                  Append(@, new_group_member(member_addr, stake_amount, start_balance))])
       /\ group_member_joined_events' = Append(group_member_joined_events,
              [creator |-> creator_addr, pact_id |-> pact_index,
               member |-> member_addr, stake_amount |-> stake_amount,
               start_balance |-> start_balance])
       /\ last' = Call("join_group_pact", creator_addr, pact_index)
       /\ UNCHANGED <<now, registry_exists, pact_counter, protocol_fees,
                      pact_created_events, pact_resolved_events,
                      pact_challenged_events, group_pact_created_events>>

\* ------------------------------------------------------------------
\* resolve_pact (solo part) and resolve_group_pact
\* ------------------------------------------------------------------
\* variant: a balance equal to the threshold counts as sold
solo_passed_strict(current_balance, start_balance) == current_balance > start_balance

solo_passed(current_balance, start_balance) == current_balance >= start_balance

\* variant: the status is written on the passing path only
resolved_status_pass_only(passed) == IF passed THEN STATUS_PASSED ELSE STATUS_ACTIVE

resolved_status(passed) == IF passed THEN STATUS_PASSED ELSE STATUS_FAILED

protocol_fee_of(stake_amount) == stake_amount - slash_returned(stake_amount)

\* variant: a settled pact can be resolved again
resolve_pact_abort_any_status(creator_addr, pact_index, current_balance, member_balances) ==
  IF ~exists_UserPacts(creator_addr) THEN E_PACT_NOT_FOUND
  ELSE IF ~(pact_index < Len(user_pacts[creator_addr])) THEN E_PACT_NOT_FOUND
  ELSE LET pact == borrow_pact(creator_addr, pact_index) IN
       IF ~(now >= pact.deadline) THEN E_DEADLINE_NOT_REACHED
       ELSE IF pact.is_group
            THEN (IF ~(Len(member_balances) = Len(pact.group_members))
                  THEN E_INVALID_TOKEN_ADDRESS ELSE OK)
       ELSE IF /\ Len(pact.challenge) = 0
               /\ ~solo_passed(current_balance, pact.start_balance)
               /\ pact.escrowed_stake < protocol_fee_of(pact.stake_amount)
            THEN EINSUFFICIENT_BALANCE
       ELSE OK

\* variant: the deadline second itself is still too early
resolve_pact_abort_late(creator_addr, pact_index, current_balance, member_balances) ==
  IF ~exists_UserPacts(creator_addr) THEN E_PACT_NOT_FOUND
  ELSE IF ~(pact_index < Len(user_pacts[creator_addr])) THEN E_PACT_NOT_FOUND
  ELSE LET pact == borrow_pact(creator_addr, pact_index) IN
       IF ~(pact.status = STATUS_ACTIVE) THEN E_PACT_NOT_ACTIVE
       ELSE IF ~(now > pact.deadline) THEN E_DEADLINE_NOT_REACHED
       ELSE IF pact.is_group
            THEN (IF ~(Len(member_balances) = Len(pact.group_members))
                  THEN E_INVALID_TOKEN_ADDRESS ELSE OK)
       ELSE OK

resolve_pact_abort(creator_addr, pact_index, current_balance, member_balances) ==
  IF ~exists_UserPacts(creator_addr) THEN E_PACT_NOT_FOUND
  ELSE IF ~(pact_index < Len(user_pacts[creator_addr])) THEN E_PACT_NOT_FOUND
  ELSE LET pact == borrow_pact(creator_addr, pact_index) IN
       IF ~(pact.status = STATUS_ACTIVE) THEN E_PACT_NOT_ACTIVE
       ELSE IF ~(now >= pact.deadline) THEN E_DEADLINE_NOT_REACHED
       ELSE IF pact.is_group
            THEN (IF ~(Len(member_balances) = Len(pact.group_members))
                  THEN E_INVALID_TOKEN_ADDRESS ELSE OK)
       ELSE IF /\ Len(pact.challenge) = 0
               /\ ~solo_passed(current_balance, pact.start_balance)
               /\ pact.escrowed_stake < protocol_fee_of(pact.stake_amount)
            THEN EINSUFFICIENT_BALANCE
       ELSE OK

\* variant: the creator only gets the pact's own stake back
pay_creator_wins_own_stake(bal, creator_addr, pact, challenge) ==
  deposit(bal, creator_addr, pact.escrowed_stake)

\* creator wins a challenged pact: both escrows are deposited to the creator
pay_creator_wins(bal, creator_addr, pact, challenge) ==
  deposit(deposit(bal, creator_addr, challenge.escrowed_challenge),
          creator_addr, pact.escrowed_stake)

\* variant: the challenger only gets the challenge stake back
pay_challenger_wins_own_stake(bal, pact, challenge) ==
  deposit(bal, challenge.challenger, challenge.escrowed_challenge)

\* challenger wins a challenged pact: both escrows are deposited to the challenger
pay_challenger_wins(bal, pact, challenge) ==
  deposit(deposit(bal, challenge.challenger, pact.escrowed_stake),
          challenge.challenger, challenge.escrowed_challenge)

\* settlement of a solo pact: the ledger after the coin movements
resolve_solo(pact, creator_addr, current_balance) ==
  LET passed == solo_passed(current_balance, pact.start_balance) IN
  IF Len(pact.challenge) > 0
  THEN LET challenge == pact.challenge[1]
           emptied == [pact EXCEPT !.escrowed_stake = 0,
                                   !.challenge[1].escrowed_challenge = 0,
                                   !.status = resolved_status(passed)]
       IN
       IF passed
       THEN [bal |-> pay_creator_wins(balance, creator_addr, pact, challenge),
             fees |-> protocol_fees,
             pact |-> emptied,
             stake_returned |-> pact.stake_amount + challenge.challenge_stake,
             protocol_fee |-> 0]
       ELSE [bal |-> pay_challenger_wins(balance, pact, challenge),
             fees |-> protocol_fees,
             pact |-> emptied,
             stake_returned |-> 0,
             protocol_fee |-> 0]
  ELSE IF passed
       THEN [bal |-> deposit(balance, creator_addr, pact.escrowed_stake),
             fees |-> protocol_fees,
             pact |-> [pact EXCEPT !.escrowed_stake = 0,
                                   !.status = resolved_status(passed)],
             stake_returned |-> pact.stake_amount,
             protocol_fee |-> 0]
       ELSE LET protocol_fee == protocol_fee_of(pact.stake_amount)
                total_stake == pact.escrowed_stake
            IN [bal |-> deposit(balance, creator_addr, total_stake - protocol_fee),
                fees |-> protocol_fees + protocol_fee,
                pact |-> [pact EXCEPT !.escrowed_stake = 0,
                                      !.status = resolved_status(passed)],
                stake_returned |-> slash_returned(pact.stake_amount),
                protocol_fee |-> protocol_fee]

\* variant: a member exactly at the threshold forfeits the stake
member_is_paid_strict(all_passed, member, member_balance) ==
  IF all_passed THEN TRUE ELSE member_balance > member.start_balance

\* where the escrow of group member i goes: TRUE to the member, FALSE to the fees
member_is_paid(all_passed, member, member_balance) ==
  IF all_passed THEN TRUE ELSE member_balance >= member.start_balance

\* the payout loops of resolve_group_pact, from member i on
RECURSIVE settle_group_from(_, _, _, _, _)
settle_group_from(group_members, member_balances, all_passed, i, acc) ==
  IF i > Len(group_members) THEN acc
  ELSE LET member == group_members[i]
           stake == acc.members[i].escrowed_stake
           emptied == [acc.members EXCEPT ![i].escrowed_stake = 0]
       IN settle_group_from(group_members, member_balances, all_passed, i + 1,
            IF member_is_paid(all_passed, member, member_balances[i])
            THEN [bal |-> deposit(acc.bal, member.member, stake),
                  fees |-> acc.fees, members |-> emptied]
            ELSE [bal |-> acc.bal,
                  fees |-> acc.fees + stake, members |-> emptied])

resolve_group_pact(pact, creator_addr, member_balances) ==
  LET all_passed == check_all_members_passed(pact.group_members, member_balances)
      total_stake == calculate_total_stake(pact.group_members)
      failed_stakes == calculate_failed_stakes(pact.group_members, member_balances)
      paid == settle_group_from(pact.group_members, member_balances, all_passed, 1,
                [bal |-> balance, fees |-> protocol_fees,
                 members |-> pact.group_members])
  IN [bal |-> paid.bal,
      fees |-> paid.fees,
      pact |-> [pact EXCEPT !.status = resolved_status(all_passed),
                            !.group_members = paid.members],
      passed |-> all_passed,
      stake_returned |-> IF all_passed THEN total_stake ELSE total_stake - failed_stakes,
      protocol_fee |-> IF all_passed THEN 0 ELSE failed_stakes]

\* variant: the slashed part of a stake is paid to the caller, not to the fee pool
resolve_pact_pays_resolver(resolver, creator_addr, pact_index, current_balance, member_balances) ==
  LET err == resolve_pact_abort(creator_addr, pact_index, current_balance,
                                member_balances) IN
  IF err # OK THEN Abort
  ELSE LET pact == borrow_pact(creator_addr, pact_index) IN
       IF pact.is_group
       THEN LET r == resolve_group_pact(pact, creator_addr, member_balances) IN
            /\ balance' = deposit(r.bal, resolver, r.protocol_fee)
            /\ protocol_fees' = protocol_fees
            /\ user_pacts' = store_pact(creator_addr, pact_index, r.pact)
            /\ pact_resolved_events' = Append(pact_resolved_events,
                   [creator |-> creator_addr, pact_id |-> pact_index,
                    passed |-> r.passed, end_balance |-> 0,
                    stake_returned |-> r.stake_returned,
                    protocol_fee |-> r.protocol_fee])
            /\ last' = [Call("resolve_pact", creator_addr, pact_index)
                          EXCEPT !.member_balances = member_balances]
            /\ UNCHANGED <<now, registry_exists, pact_counter, pact_created_events,
                           pact_challenged_events, group_pact_created_events,
                           group_member_joined_events>>
       ELSE LET r == resolve_solo(pact, creator_addr, current_balance) IN
            /\ balance' = deposit(r.bal, resolver, r.protocol_fee)
            /\ protocol_fees' = protocol_fees
            /\ user_pacts' = store_pact(creator_addr, pact_index, r.pact)
            /\ pact_resolved_events' = Append(pact_resolved_events,
                   [creator |-> creator_addr, pact_id |-> pact_index,
                    passed |-> solo_passed(current_balance, pact.start_balance),
                    end_balance |-> current_balance,
                    stake_returned |-> r.stake_returned,
                    protocol_fee |-> r.protocol_fee])
            /\ last' = [Call("resolve_pact", creator_addr, pact_index)
                          EXCEPT !.current_balance = current_balance]
            /\ UNCHANGED <<now, registry_exists, pact_counter, pact_created_events,
                           pact_challenged_events, group_pact_created_events,
                           group_member_joined_events>>

resolve_pact(resolver, creator_addr, pact_index, current_balance, member_balances) ==
  LET err == resolve_pact_abort(creator_addr, pact_index, current_balance,
                                member_balances) IN
  IF err # OK THEN Abort
  ELSE LET pact == borrow_pact(creator_addr, pact_index) IN
       IF pact.is_group
       THEN LET r == resolve_group_pact(pact, creator_addr, member_balances) IN
            /\ balance' = r.bal
            /\ protocol_fees' = r.fees
            /\ user_pacts' = store_pact(creator_addr, pact_index, r.pact)
            /\ pact_resolved_events' = Append(pact_resolved_events,
                   [creator |-> creator_addr, pact_id |-> pact_index,
                    passed |-> r.passed, end_balance |-> 0,
                    stake_returned |-> r.stake_returned,
                    protocol_fee |-> r.protocol_fee])
            /\ last' = [Call("resolve_pact", creator_addr, pact_index)
                          EXCEPT !.member_balances = member_balances]
            /\ UNCHANGED <<now, registry_exists, pact_counter, pact_created_events,
                           pact_challenged_events, group_pact_created_events,
                           group_member_joined_events>>
       ELSE LET r == resolve_solo(pact, creator_addr, current_balance) IN
            /\ balance' = r.bal
            /\ protocol_fees' = r.fees
            /\ user_pacts' = store_pact(creator_addr, pact_index, r.pact)
            /\ pact_resolved_events' = Append(pact_resolved_events,
                   [creator |-> creator_addr, pact_id |-> pact_index,
                    passed |-> solo_passed(current_balance, pact.start_balance),
                    end_balance |-> current_balance,
                    stake_returned |-> r.stake_returned,
                    protocol_fee |-> r.protocol_fee])
            /\ last' = [Call("resolve_pact", creator_addr, pact_index)
                          EXCEPT !.current_balance = current_balance]
            /\ UNCHANGED <<now, registry_exists, pact_counter, pact_created_events,
                           pact_challenged_events, group_pact_created_events,
                           group_member_joined_events>>

\* ------------------------------------------------------------------
\* cancel_pact
\* ------------------------------------------------------------------
cancel_pact_abort(creator_addr, pact_index) ==
  IF ~exists_UserPacts(creator_addr) THEN E_PACT_NOT_FOUND
  ELSE IF ~(pact_index < Len(user_pacts[creator_addr])) THEN E_PACT_NOT_FOUND
  ELSE LET pact == borrow_pact(creator_addr, pact_index) IN
       IF ~(pact.status = STATUS_ACTIVE) THEN E_PACT_NOT_ACTIVE
       ELSE IF pact.escrowed_stake < protocol_fee_of(pact.stake_amount)
            THEN EINSUFFICIENT_BALANCE
       ELSE OK

\* variant: the fee replaces the fee pool instead of being merged into it
cancel_pact_fee_overwrite(creator_addr, pact_index) ==
  LET err == cancel_pact_abort(creator_addr, pact_index) IN
  IF err # OK THEN Abort
  ELSE LET pact == borrow_pact(creator_addr, pact_index)
           stake_returned == slash_returned(pact.stake_amount)
           protocol_fee == pact.stake_amount - stake_returned
           total_stake == pact.escrowed_stake
       IN
       /\ user_pacts' = store_pact(creator_addr, pact_index,
              [pact EXCEPT !.status = STATUS_FAILED, !.escrowed_stake = 0])
       /\ protocol_fees' = protocol_fee
       /\ balance' = deposit(balance, creator_addr, total_stake - protocol_fee)
       /\ pact_resolved_events' = Append(pact_resolved_events,
              [creator |-> creator_addr, pact_id |-> pact_index,
               passed |-> FALSE, end_balance |-> 0,
               stake_returned |-> stake_returned,
               protocol_fee |-> protocol_fee])
       /\ last' = Call("cancel_pact", creator_addr, pact_index)
       /\ UNCHANGED <<now, registry_exists, pact_counter, pact_created_events,
                      pact_challenged_events, group_pact_created_events,
                      group_member_joined_events>>

\* variant: the status written before coin::extract aborts is not rolled back
cancel_pact_no_rollback(creator_addr, pact_index) ==
  LET err == cancel_pact_abort(creator_addr, pact_index) IN
  IF err \notin {OK, EINSUFFICIENT_BALANCE} THEN Abort
  ELSE LET pact == borrow_pact(creator_addr, pact_index)
           stake_returned == slash_returned(pact.stake_amount)
           protocol_fee == pact.stake_amount - stake_returned
           total_stake == pact.escrowed_stake
       IN
       IF err = EINSUFFICIENT_BALANCE
       THEN /\ user_pacts' = store_pact(creator_addr, pact_index,
                   [pact EXCEPT !.status = STATUS_FAILED])
            /\ last' = Call("cancel_pact", creator_addr, pact_index)
            /\ UNCHANGED <<now, balance, registry_exists, pact_counter, protocol_fees,
                           pact_created_events, pact_resolved_events,
                           pact_challenged_events, group_pact_created_events,
                           group_member_joined_events>>
       ELSE /\ user_pacts' = store_pact(creator_addr, pact_index,
                   [pact EXCEPT !.status = STATUS_FAILED, !.escrowed_stake = 0])
            /\ protocol_fees' = protocol_fees + protocol_fee
            /\ balance' = deposit(balance, creator_addr, total_stake - protocol_fee)
            /\ pact_resolved_events' = Append(pact_resolved_events,
                   [creator |-> creator_addr, pact_id |-> pact_index,
                    passed |-> FALSE, end_balance |-> 0,
                    stake_returned |-> stake_returned,
                    protocol_fee |-> protocol_fee])
            /\ last' = Call("cancel_pact", creator_addr, pact_index)
            /\ UNCHANGED <<now, registry_exists, pact_counter, pact_created_events,
                           pact_challenged_events, group_pact_created_events,
                           group_member_joined_events>>

\* variant: the pact owner is an argument of the call, not the signer
cancel_pact_any_owner(creator_addr, pact_index) ==
  \E owner \in Users :
    LET err == cancel_pact_abort(owner, pact_index) IN
    IF err # OK THEN Abort
    ELSE LET pact == borrow_pact(owner, pact_index)
             stake_returned == slash_returned(pact.stake_amount)
             protocol_fee == pact.stake_amount - stake_returned
             total_stake == pact.escrowed_stake
         IN
         /\ user_pacts' = store_pact(owner, pact_index,
                [pact EXCEPT !.status = STATUS_FAILED, !.escrowed_stake = 0])
         /\ protocol_fees' = protocol_fees + protocol_fee
         /\ balance' = deposit(balance, creator_addr, total_stake - protocol_fee)
         /\ pact_resolved_events' = Append(pact_resolved_events,
                [creator |-> owner, pact_id |-> pact_index,
                 passed |-> FALSE, end_balance |-> 0,
                 stake_returned |-> stake_returned,
                 protocol_fee |-> protocol_fee])
         /\ last' = Call("cancel_pact", creator_addr, pact_index)
         /\ UNCHANGED <<now, registry_exists, pact_counter, pact_created_events,
                        pact_challenged_events, group_pact_created_events,
                        group_member_joined_events>>

cancel_pact(creator_addr, pact_index) ==
  LET err == cancel_pact_abort(creator_addr, pact_index) IN
  IF err # OK THEN Abort
  ELSE LET pact == borrow_pact(creator_addr, pact_index)
           stake_returned == slash_returned(pact.stake_amount)
           protocol_fee == pact.stake_amount - stake_returned
           total_stake == pact.escrowed_stake
       IN
       /\ user_pacts' = store_pact(creator_addr, pact_index,
              [pact EXCEPT !.status = STATUS_FAILED, !.escrowed_stake = 0])
       /\ protocol_fees' = protocol_fees + protocol_fee
       /\ balance' = deposit(balance, creator_addr, total_stake - protocol_fee)
       /\ pact_resolved_events' = Append(pact_resolved_events,
              [creator |-> creator_addr, pact_id |-> pact_index,
               passed |-> FALSE, end_balance |-> 0,
               stake_returned |-> stake_returned,
               protocol_fee |-> protocol_fee])
       /\ last' = Call("cancel_pact", creator_addr, pact_index)
       /\ UNCHANGED <<now, registry_exists, pact_counter, pact_created_events,
                      pact_challenged_events, group_pact_created_events,
                      group_member_joined_events>>

\* ------------------------------------------------------------------
\* View functions
\* ------------------------------------------------------------------
get_user_pact_count(creator_addr) ==
  IF ~exists_UserPacts(creator_addr) THEN 0 ELSE Len(user_pacts[creator_addr])

get_protocol_fees == IF ~registry_exists THEN 0 ELSE protocol_fees

get_total_pacts == IF ~registry_exists THEN 0 ELSE pact_counter

\* ------------------------------------------------------------------
\* The chain's clock
\* ------------------------------------------------------------------
Tick ==
  /\ now < MaxTime
  /\ now' = now + 1
  /\ last' = Call("tick", pact_addr, 0)
  /\ UNCHANGED ledger

\* ------------------------------------------------------------------
\* Specification
\* ------------------------------------------------------------------
\* resolve_pact reads current_balance on a solo pact only and member_balances
\* on a group pact only, so each is varied with the other held fixed.
Next ==
  \/ \E a \in Addrs : initialize(a) /\ UNCHANGED probe
  \/ \E a \in Users, t \in Tokens, sb \in StartBalances, s \in Stakes, d \in Deadlines :
        create_pact(a, t, sb, s, d) /\ UNCHANGED probe
  \/ \E a \in Users, t \in Tokens, sb \in StartBalances, s \in Stakes, d \in Deadlines,
        g \in GroupSizes :
        create_group_pact(a, t, sb, s, d, g) /\ UNCHANGED probe
  \/ \E a \in Users, c \in Users, i \in Indexes, s \in Stakes :
        challenge_pact(a, c, i, s) /\ UNCHANGED probe
  \/ \E a \in Users, c \in Users, i \in Indexes, s \in Stakes, sb \in StartBalances :
        join_group_pact(a, c, i, s, sb) /\ UNCHANGED probe
  \/ \E a \in Addrs, c \in Users, i \in Indexes, cb \in Balances :
        resolve_pact(a, c, i, cb, <<>>) /\ UNCHANGED probe
  \/ \E a \in Addrs, c \in Users, i \in Indexes, mb \in BalanceVectors :
        resolve_pact(a, c, i, 1, mb) /\ UNCHANGED probe
  \/ \E a \in Users, i \in Indexes : cancel_pact(a, i) /\ UNCHANGED probe
  \/ Tick /\ UNCHANGED probe

Spec == Init /\ [][Next]_vars

\* ------------------------------------------------------------------
\* Time advances and enabled resolutions are eventually taken
\* ------------------------------------------------------------------
\* some account resolves pact pact_index of creator_addr
ResolveOf(creator_addr, pact_index) ==
  /\ \E a \in Addrs, cb \in Balances, mb \in BalanceVectors \cup {<<>>} :
        resolve_pact(a, creator_addr, pact_index, cb, mb)
  /\ UNCHANGED probe

\* the chain's clock does not stop, and a pact that can be resolved is not
\* left unresolved forever: resolve_pact is open to every account
SpecLive ==
  /\ Init
  /\ [][Next]_vars
  /\ WF_vars(Tick /\ UNCHANGED probe)
  /\ \A c \in Users, i \in Indexes : WF_vars(ResolveOf(c, i))

\* ------------------------------------------------------------------
\* The settlement arithmetic on a machine word of WordBits bits
\* ------------------------------------------------------------------
\* the largest value of the word; u64 arithmetic aborts beyond it
MaxWord == 2^WordBits - 1

\* checked multiplication and addition: the value, or an arithmetic abort
mul_u64(a, b) == IF a * b > MaxWord THEN [aborted |-> TRUE, value |-> 0]
                 ELSE [aborted |-> FALSE, value |-> a * b]

add_u64(a, b) == IF a + b > MaxWord THEN [aborted |-> TRUE, value |-> 0]
                 ELSE [aborted |-> FALSE, value |-> a + b]

\* stake_returned of a failed solo resolution and of a cancellation
stake_returned_u64(stake_amount) ==
  LET product == mul_u64(stake_amount, SLASH_PERCENTAGE_RETURNED) IN
  IF product.aborted THEN product
  ELSE [aborted |-> FALSE, value |-> product.value \div 100]

\* the loop of calculate_total_stake, from member i on, total so far given
RECURSIVE calculate_total_stake_u64(_, _, _)
calculate_total_stake_u64(stakes, i, total) ==
  IF i > Len(stakes) THEN [aborted |-> FALSE, value |-> total]
  ELSE LET sum == add_u64(total, stakes[i]) IN
       IF sum.aborted THEN sum
       ELSE calculate_total_stake_u64(stakes, i + 1, sum.value)

\* the loop of calculate_failed_stakes; below[i] says member i is below the
\* member's start_balance
RECURSIVE calculate_failed_stakes_u64(_, _, _, _)
calculate_failed_stakes_u64(stakes, below, i, failed) ==
  IF i > Len(stakes) THEN [aborted |-> FALSE, value |-> failed]
  ELSE IF ~below[i] THEN calculate_failed_stakes_u64(stakes, below, i + 1, failed)
  ELSE LET sum == add_u64(failed, stakes[i]) IN
       IF sum.aborted THEN sum
       ELSE calculate_failed_stakes_u64(stakes, below, i + 1, sum.value)

\* no pact yet; the experiment keeps the stakes of one pact and the outcome
\* of its settlement arithmetic
InitWord ==
  /\ now = 0
  /\ balance = [a \in Addrs |-> InitialBalance]
  /\ registry_exists = FALSE
  /\ pact_counter = 0
  /\ protocol_fees = 0
  /\ user_pacts = [a \in {} |-> <<>>]
  /\ pact_created_events = <<>>
  /\ pact_resolved_events = <<>>
  /\ pact_challenged_events = <<>>
  /\ group_pact_created_events = <<>>
  /\ group_member_joined_events = <<>>
  /\ last = Call("none", pact_addr, 0)
  /\ probe = [phase |-> "word", is_group |-> FALSE, stakes |-> <<>>,
              settled |-> FALSE, aborted |-> FALSE]

\* a pact is created with any stake an account of the word's width can hold
\* (the minimum stake is scaled to 1)
CreateWord ==
  /\ probe.stakes = <<>>
  /\ \E s \in 1..MaxWord, g \in BOOLEAN :
       probe' = [probe EXCEPT !.stakes = <<s>>, !.is_group = g]
  /\ UNCHANGED <<now, ledger, last>>

\* a further member joins a group pact with a stake of its own
JoinWord ==
  /\ probe.is_group
  /\ ~probe.settled
  /\ Len(probe.stakes) < MaxGroupSize
  /\ \E s \in 1..MaxWord : probe' = [probe EXCEPT !.stakes = Append(@, s)]
  /\ UNCHANGED <<now, ledger, last>>

\* the solo pact fails at resolution or is cancelled: stake_returned is computed
FailWord ==
  /\ probe.stakes # <<>>
  /\ ~probe.is_group
  /\ ~probe.settled
  /\ probe' = [probe EXCEPT !.settled = TRUE,
                            !.aborted = stake_returned_u64(probe.stakes[1]).aborted]
  /\ UNCHANGED <<now, ledger, last>>

\* the group pact is resolved: total and failed stakes are computed
ResolveGroupWord ==
  /\ probe.is_group
  /\ ~probe.settled
  /\ \E below \in [1..Len(probe.stakes) -> BOOLEAN] :
       probe' = [probe EXCEPT !.settled = TRUE,
                   !.aborted =
                      \/ calculate_total_stake_u64(probe.stakes, 1, 0).aborted
                      \/ calculate_failed_stakes_u64(probe.stakes, below, 1, 0).aborted]
  /\ UNCHANGED <<now, ledger, last>>

NextWord == CreateWord \/ JoinWord \/ FailWord \/ ResolveGroupWord

SpecWord == InitWord /\ [][NextWord]_vars

\* ------------------------------------------------------------------
\* The original solo-only module, run in step with the extended module
\* ------------------------------------------------------------------
\* The state of the original module is a record o with the fields balance,
\* registry_exists, pact_counter, protocol_fees, user_pacts,
\* pact_created_events, pact_resolved_events.

\* the numbers behind the module's error names, in the extended and the
\* original module
ErrorNumber ==
  [E_NOT_INITIALIZED |-> 1, E_ALREADY_INITIALIZED |-> 2, E_PACT_NOT_FOUND |-> 3,
   E_PACT_NOT_ACTIVE |-> 4, E_DEADLINE_NOT_REACHED |-> 5, E_DEADLINE_ALREADY_PASSED |-> 6,
   E_INSUFFICIENT_STAKE |-> 7, E_INVALID_TOKEN_ADDRESS |-> 8, E_BALANCE_DECREASED |-> 9,
   E_UNAUTHORIZED |-> 10, E_CHALLENGE_NOT_FOUND |-> 11, E_ALREADY_CHALLENGED |-> 12,
   E_GROUP_FULL |-> 13, E_NOT_GROUP_PACT |-> 14, E_ALREADY_IN_GROUP |-> 15]

original_ErrorNumber ==
  [E_NOT_INITIALIZED |-> 1, E_ALREADY_INITIALIZED |-> 2, E_PACT_NOT_FOUND |-> 3,
   E_PACT_NOT_ACTIVE |-> 4, E_DEADLINE_NOT_REACHED |-> 5, E_DEADLINE_ALREADY_PASSED |-> 6,
   E_INSUFFICIENT_STAKE |-> 7, E_INVALID_TOKEN_ADDRESS |-> 8, E_BALANCE_DECREASED |-> 9,
   E_UNAUTHORIZED |-> 10]

original_initialize_abort(o, account_addr) ==
  IF account_addr # pact_addr THEN E_UNAUTHORIZED
  ELSE IF o.registry_exists THEN E_ALREADY_INITIALIZED
  ELSE OK

original_initialize(o, account_addr) ==
  [o EXCEPT !.registry_exists = TRUE, !.pact_counter = 0, !.protocol_fees = 0,
            !.pact_created_events = <<>>, !.pact_resolved_events = <<>>]

original_create_pact_abort(o, creator_addr, stake_amount, deadline_seconds) ==
  IF ~(stake_amount >= MINIMUM_STAKE) THEN E_INSUFFICIENT_STAKE
  ELSE IF ~(deadline_seconds > now) THEN E_DEADLINE_ALREADY_PASSED
  ELSE IF ~o.registry_exists THEN E_NOT_INITIALIZED
  ELSE IF o.balance[creator_addr] < stake_amount THEN EINSUFFICIENT_BALANCE
  ELSE OK

original_create_pact(o, creator_addr, token_address, start_balance, stake_amount, deadline_seconds) ==
  LET pact_id == o.pact_counter
      pact == [creator |-> creator_addr,
               token_address |-> token_address,
               start_balance |-> start_balance,
               stake_amount |-> stake_amount,
               deadline |-> deadline_seconds,
               status |-> STATUS_ACTIVE,
               escrowed_stake |-> stake_amount]
  IN [o EXCEPT
        !.balance = [@ EXCEPT ![creator_addr] = @ - stake_amount],
        !.pact_counter = pact_id + 1,
        !.user_pacts =
           IF creator_addr \in DOMAIN @
           THEN [@ EXCEPT ![creator_addr] = Append(@, pact)]
           ELSE [a \in DOMAIN @ \cup {creator_addr} |->
                   IF a = creator_addr THEN <<pact>> ELSE @[a]],
        !.pact_created_events = Append(@,
           [creator |-> creator_addr, pact_id |-> pact_id,
            token_address |-> token_address, start_balance |-> start_balance,
            stake_amount |-> stake_amount, deadline |-> deadline_seconds])]

original_resolve_pact_abort(o, creator_addr, pact_index, current_balance) ==
  IF ~(creator_addr \in DOMAIN o.user_pacts) THEN E_PACT_NOT_FOUND
  ELSE IF ~(pact_index < Len(o.user_pacts[creator_addr])) THEN E_PACT_NOT_FOUND
  ELSE LET pact == o.user_pacts[creator_addr][pact_index + 1] IN
       IF ~(pact.status = STATUS_ACTIVE) THEN E_PACT_NOT_ACTIVE
       ELSE IF ~(now >= pact.deadline) THEN E_DEADLINE_NOT_REACHED
       ELSE IF /\ ~(current_balance >= pact.start_balance)
               /\ pact.escrowed_stake
                    < pact.stake_amount - (pact.stake_amount * SLASH_PERCENTAGE_RETURNED) \div 100
            THEN EINSUFFICIENT_BALANCE
       ELSE OK

original_resolve_pact(o, creator_addr, pact_index, current_balance) ==
  LET pact == o.user_pacts[creator_addr][pact_index + 1]
      passed == current_balance >= pact.start_balance
      stake_returned == IF passed THEN pact.stake_amount
                        ELSE (pact.stake_amount * SLASH_PERCENTAGE_RETURNED) \div 100
      protocol_fee == IF passed THEN 0 ELSE pact.stake_amount - stake_returned
      total_stake == pact.escrowed_stake
  IN [o EXCEPT
        !.user_pacts[creator_addr][pact_index + 1] =
           [pact EXCEPT !.status = IF passed THEN STATUS_PASSED ELSE STATUS_FAILED,
                        !.escrowed_stake = 0],
        !.protocol_fees = @ + protocol_fee,
        !.balance = [@ EXCEPT ![creator_addr] = @ + (total_stake - protocol_fee)],
        !.pact_resolved_events = Append(@,
           [creator |-> creator_addr, pact_id |-> pact_index, passed |-> passed,
            end_balance |-> current_balance, stake_returned |-> stake_returned,
            protocol_fee |-> protocol_fee])]

original_cancel_pact_abort(o, creator_addr, pact_index) ==
  IF ~(creator_addr \in DOMAIN o.user_pacts) THEN E_PACT_NOT_FOUND
  ELSE IF ~(pact_index < Len(o.user_pacts[creator_addr])) THEN E_PACT_NOT_FOUND
  ELSE LET pact == o.user_pacts[creator_addr][pact_index + 1] IN
       IF ~(pact.status = STATUS_ACTIVE) THEN E_PACT_NOT_ACTIVE
       ELSE IF pact.escrowed_stake
                 < pact.stake_amount - (pact.stake_amount * SLASH_PERCENTAGE_RETURNED) \div 100
            THEN EINSUFFICIENT_BALANCE
       ELSE OK

original_cancel_pact(o, creator_addr, pact_index) ==
  LET pact == o.user_pacts[creator_addr][pact_index + 1]
      stake_returned == (pact.stake_amount * SLASH_PERCENTAGE_RETURNED) \div 100
      protocol_fee == pact.stake_amount - stake_returned
      total_stake == pact.escrowed_stake
  IN [o EXCEPT
        !.user_pacts[creator_addr][pact_index + 1] =
           [pact EXCEPT !.status = STATUS_FAILED, !.escrowed_stake = 0],
        !.protocol_fees = @ + protocol_fee,
        !.balance = [@ EXCEPT ![creator_addr] = @ + (total_stake - protocol_fee)],
        !.pact_resolved_events = Append(@,
           [creator |-> creator_addr, pact_id |-> pact_index, passed |-> FALSE,
            end_balance |-> 0, stake_returned |-> stake_returned,
            protocol_fee |-> protocol_fee])]

\* Both modules start from the same accounts, at the same time.
InitRefine ==
  /\ now = 0
  /\ balance = [a \in Addrs |-> InitialBalance]
  /\ registry_exists = FALSE
  /\ pact_counter = 0
  /\ protocol_fees = 0
  /\ user_pacts = [a \in {} |-> <<>>]
  /\ pact_created_events = <<>>
  /\ pact_resolved_events = <<>>
  /\ pact_challenged_events = <<>>
  /\ group_pact_created_events = <<>>
  /\ group_member_joined_events = <<>>
  /\ last = Call("none", pact_addr, 0)
  /\ probe = [phase |-> "refine",
              balance |-> [a \in Addrs |-> InitialBalance],
              registry_exists |-> FALSE,
              pact_counter |-> 0,
              protocol_fees |-> 0,
              user_pacts |-> [a \in {} |-> <<>>],
              pact_created_events |-> <<>>,
              pact_resolved_events |-> <<>>]

\* One call is submitted to both modules; each module commits it or rejects
\* it on its own.
BothInitialize(account_addr) ==
  LET e == initialize_abort(account_addr)
      o == original_initialize_abort(probe, account_addr)
  IN /\ e = OK \/ o = OK
     /\ IF e = OK THEN initialize(account_addr) ELSE UNCHANGED <<now, ledger, last>>
     /\ probe' = IF o = OK THEN original_initialize(probe, account_addr) ELSE probe

BothCreate(creator_addr, token_address, start_balance, stake_amount, deadline_seconds) ==
  LET e == create_pact_abort(creator_addr, stake_amount, deadline_seconds)
      o == original_create_pact_abort(probe, creator_addr, stake_amount, deadline_seconds)
  IN /\ e = OK \/ o = OK
     /\ pact_counter < MaxPacts
     /\ probe.pact_counter < MaxPacts
     /\ IF e = OK
        THEN create_pact(creator_addr, token_address, start_balance, stake_amount,
                         deadline_seconds)
        ELSE UNCHANGED <<now, ledger, last>>
     /\ probe' = IF o = OK
                 THEN original_create_pact(probe, creator_addr, token_address,
                                           start_balance, stake_amount, deadline_seconds)
                 ELSE probe

BothResolve(resolver, creator_addr, pact_index, current_balance, member_balances) ==
  LET e == resolve_pact_abort(creator_addr, pact_index, current_balance, member_balances)
      o == original_resolve_pact_abort(probe, creator_addr, pact_index, current_balance)
  IN /\ e = OK \/ o = OK
     /\ IF e = OK
        THEN resolve_pact(resolver, creator_addr, pact_index, current_balance,
                          member_balances)
        ELSE UNCHANGED <<now, ledger, last>>
     /\ probe' = IF o = OK
                 THEN original_resolve_pact(probe, creator_addr, pact_index,
                                            current_balance)
                 ELSE probe

BothCancel(creator_addr, pact_index) ==
  LET e == cancel_pact_abort(creator_addr, pact_index)
      o == original_cancel_pact_abort(probe, creator_addr, pact_index)
  IN /\ e = OK \/ o = OK
     /\ IF e = OK THEN cancel_pact(creator_addr, pact_index)
        ELSE UNCHANGED <<now, ledger, last>>
     /\ probe' = IF o = OK THEN original_cancel_pact(probe, creator_addr, pact_index)
                 ELSE probe

\* the member_balances the extended resolve_pact is handed for a solo pact
SoloMemberBalances == {<<>>, <<1>>}

NextRefine ==
  \/ \E a \in Addrs : BothInitialize(a)
  \/ \E a \in Users, t \in Tokens, sb \in StartBalances, s \in Stakes, d \in Deadlines :
        BothCreate(a, t, sb, s, d)
  \/ \E a \in Addrs, c \in Users, i \in Indexes, cb \in Balances,
        mb \in SoloMemberBalances :
        BothResolve(a, c, i, cb, mb)
  \/ \E a \in Users, i \in Indexes : BothCancel(a, i)
  \/ Tick /\ UNCHANGED probe

SpecRefine == InitRefine /\ [][NextRefine]_vars

\* ------------------------------------------------------------------
\* Two operations on two pacts, run in both orders from the same state
\* ------------------------------------------------------------------
\* the calls of the four operations that name an existing pact; the deployer,
\* whose funds no creation has used, is among the challengers and joiners
PactCalls ==
  {[op |-> "challenge_pact", caller |-> a, creator |-> c, index |-> i, stake |-> s, start_balance |-> 0, current_balance |-> 0, member_balances |-> <<>>] : a \in Addrs, c \in Users, i \in Indexes, s \in Stakes}
  \cup
  {[op |-> "join_group_pact", caller |-> a, creator |-> c, index |-> i, stake |-> s, start_balance |-> sb, current_balance |-> 0, member_balances |-> <<>>] : a \in Addrs, c \in Users, i \in Indexes, s \in Stakes, sb \in StartBalances}
  \cup
  {[op |-> "resolve_pact", caller |-> pact_addr, creator |-> c, index |-> i, stake |-> 0, start_balance |-> 0, current_balance |-> cb, member_balances |-> <<>>] : c \in Users, i \in Indexes, cb \in Balances}
  \cup
  {[op |-> "resolve_pact", caller |-> pact_addr, creator |-> c, index |-> i, stake |-> 0, start_balance |-> 0, current_balance |-> 1, member_balances |-> mb] : c \in Users, i \in Indexes, mb \in BalanceVectors}
  \cup
  {[op |-> "cancel_pact", caller |-> c, creator |-> c, index |-> i, stake |-> 0, start_balance |-> 0, current_balance |-> 0, member_balances |-> <<>>] : c \in Users, i \in Indexes}

\* the transaction that call d submits
Perform(d) ==
  \/ /\ d.op = "challenge_pact"
     /\ challenge_pact(d.caller, d.creator, d.index, d.stake)
  \/ /\ d.op = "join_group_pact"
     /\ join_group_pact(d.caller, d.creator, d.index, d.stake, d.start_balance)
  \/ /\ d.op = "resolve_pact"
     /\ resolve_pact(d.caller, d.creator, d.index, d.current_balance, d.member_balances)
  \/ /\ d.op = "cancel_pact"
     /\ cancel_pact(d.creator, d.index)

\* the abort code of call d in the current state
abort_code(d) ==
  CASE d.op = "challenge_pact" ->
         challenge_pact_abort(d.caller, d.creator, d.index, d.stake)
    [] d.op = "join_group_pact" ->
         join_group_pact_abort(d.caller, d.creator, d.index, d.stake)
    [] d.op = "resolve_pact" ->
         resolve_pact_abort(d.creator, d.index, d.current_balance, d.member_balances)
    [] d.op = "cancel_pact" -> cancel_pact_abort(d.creator, d.index)

\* the pact a call names
Target(d) == <<d.creator, d.index>>

\* what the two orders are compared on: pact records, balances, fee pool
Outcome == <<user_pacts, balance, protocol_fees>>

\* the program runs; no experiment yet
Run == probe.phase = "run" /\ Next

\* an accepted call is made and remembered, with the state before it
First ==
  /\ probe.phase = "run"
  /\ \E d \in PactCalls :
       /\ abort_code(d) = OK
       /\ Perform(d)
       /\ probe' = [phase |-> "second", start |-> ledger, first |-> d]

\* a second accepted call, on another pact, follows; the outcome is remembered
Second ==
  /\ probe.phase = "second"
  /\ \E d \in PactCalls :
       /\ Target(d) # Target(probe.first)
       /\ abort_code(d) = OK
       /\ Perform(d)
       /\ probe' = [phase |-> "rewind", start |-> probe.start, first |-> probe.first,
                    second |-> d, outcome |-> Outcome']

\* back to the state before the first call
Rewind ==
  /\ probe.phase = "rewind"
  /\ balance' = probe.start[1]
  /\ registry_exists' = probe.start[2]
  /\ pact_counter' = probe.start[3]
  /\ protocol_fees' = probe.start[4]
  /\ user_pacts' = probe.start[5]
  /\ pact_created_events' = probe.start[6]
  /\ pact_resolved_events' = probe.start[7]
  /\ pact_challenged_events' = probe.start[8]
  /\ group_pact_created_events' = probe.start[9]
  /\ group_member_joined_events' = probe.start[10]
  /\ probe' = [probe EXCEPT !.phase = "swapped"]
  /\ UNCHANGED <<now, last>>

\* the second call is made first, if the state accepts it
SwappedFirst ==
  /\ probe.phase = "swapped"
  /\ abort_code(probe.second) = OK
  /\ Perform(probe.second)
  /\ probe' = [probe EXCEPT !.phase = "swapped_one"]

\* and the first call after it
SwappedSecond ==
  /\ probe.phase = "swapped_one"
  /\ abort_code(probe.first) = OK
  /\ Perform(probe.first)
  /\ probe' = [probe EXCEPT !.phase = "done"]

NextOrder == Run \/ First \/ Second \/ Rewind \/ SwappedFirst \/ SwappedSecond

SpecOrder == Init /\ [][NextOrder]_vars

\* ------------------------------------------------------------------
\* A solo pact followed from its creation to its passing resolution
\* ------------------------------------------------------------------
\* the stakes offered during a round trip
RoundTripStakes == {MINIMUM_STAKE}

\* the transactions that the accounts in callers can submit
Transactions(callers) ==
  \/ \E a \in callers : initialize(a)
  \/ \E a \in callers \cap Users, t \in Tokens, sb \in StartBalances, s \in RoundTripStakes,
        d \in Deadlines :
        create_pact(a, t, sb, s, d)
  \/ \E a \in callers \cap Users, t \in Tokens, sb \in StartBalances, s \in RoundTripStakes,
        d \in Deadlines, g \in GroupSizes :
        create_group_pact(a, t, sb, s, d, g)
  \/ \E a \in callers, o \in Users, i \in Indexes, s \in RoundTripStakes :
        challenge_pact(a, o, i, s)
  \/ \E a \in callers, o \in Users, i \in Indexes, s \in RoundTripStakes, sb \in StartBalances :
        join_group_pact(a, o, i, s, sb)
  \/ \E a \in callers, o \in Users, i \in Indexes, cb \in Balances :
        resolve_pact(a, o, i, cb, <<>>)
  \/ \E a \in callers, o \in Users, i \in Indexes, mb \in BalanceVectors :
        resolve_pact(a, o, i, 1, mb)
  \/ \E a \in callers \cap Users, i \in Indexes : cancel_pact(a, i)

\* the program runs; no pact is followed yet
Before ==
  /\ probe.phase = "run"
  /\ Transactions(Addrs) \/ Tick
  /\ UNCHANGED probe

\* an accepted create_pact is followed; the creator's balance and the fee
\* pool before it are remembered
Open ==
  /\ probe.phase = "run"
  /\ \E a \in Users, t \in Tokens, sb \in StartBalances, s \in RoundTripStakes, d \in Deadlines :
       /\ create_pact_abort(a, s, d) = OK
       /\ create_pact(a, t, sb, s, d)
       /\ probe' = [phase |-> "open", creator |-> a, index |-> get_user_pact_count(a),
                    balance |-> balance[a], fees |-> protocol_fees,
                    disturbed |-> FALSE, fees_at_close |-> 0]

\* the other accounts act; a step that moves the creator's balance or the
\* fee pool is noted
Between ==
  /\ probe.phase = "open"
  /\ Transactions(Addrs \ {probe.creator}) \/ Tick
  /\ probe' = [probe EXCEPT !.disturbed =
                  \/ @
                  \/ balance'[probe.creator] # balance[probe.creator]
                  \/ protocol_fees' # protocol_fees]

\* the followed pact, unchallenged, is resolved with a balance that passes
Close ==
  /\ probe.phase = "open"
  /\ LET pact == borrow_pact(probe.creator, probe.index) IN
     /\ Len(pact.challenge) = 0
     /\ \E a \in Addrs, cb \in Balances :
          /\ cb >= pact.start_balance
          /\ resolve_pact_abort(probe.creator, probe.index, cb, <<>>) = OK
          /\ resolve_pact(a, probe.creator, probe.index, cb, <<>>)
  /\ probe' = [probe EXCEPT !.phase = "closed", !.fees_at_close = protocol_fees]

NextRoundTrip == Before \/ Open \/ Between \/ Close

\* one account holds enough for two stakes, so that it can have a stake in
\* another pact while its own pact is open
InitRoundTrip ==
  /\ now = 0
  /\ balance = [a \in Addrs |-> IF a = "alice" THEN 2 * InitialBalance ELSE InitialBalance]
  /\ registry_exists = FALSE
  /\ pact_counter = 0
  /\ protocol_fees = 0
  /\ user_pacts = [a \in {} |-> <<>>]
  /\ pact_created_events = <<>>
  /\ pact_resolved_events = <<>>
  /\ pact_challenged_events = <<>>
  /\ group_pact_created_events = <<>>
  /\ group_member_joined_events = <<>>
  /\ last = Call("none", pact_addr, 0)
  /\ probe = Idle

SpecRoundTrip == InitRoundTrip /\ [][NextRoundTrip]_vars

\* ------------------------------------------------------------------
\* Vocabulary of the properties
\* ------------------------------------------------------------------
AllPacts ==
  UNION {{<<c, i>> : i \in 0..(Len(user_pacts[c]) - 1)} : c \in DOMAIN user_pacts}

PactAt(k) == borrow_pact(k[1], k[2])

RECURSIVE SumSeq(_, _)
SumSeq(amounts, i) ==
  IF i > Len(amounts) THEN 0 ELSE amounts[i] + SumSeq(amounts, i + 1)

RECURSIVE SumBalances(_, _)
SumBalances(bal, accounts) ==
  IF accounts = {} THEN 0
  ELSE LET a == CHOOSE x \in accounts : TRUE
       IN bal[a] + SumBalances(bal, accounts \ {a})

\* everything a pact holds in custody
EscrowTotal(pact) ==
  pact.escrowed_stake
  + SumSeq([j \in 1..Len(pact.challenge) |-> pact.challenge[j].escrowed_challenge], 1)
  + SumSeq([j \in 1..Len(pact.group_members) |-> pact.group_members[j].escrowed_stake], 1)

\* the accounts a settlement of the pact may pay
Parties(pact) ==
  {pact.creator}
  \cup {pact.challenge[j].challenger : j \in 1..Len(pact.challenge)}
  \cup {pact.group_members[j].member : j \in 1..Len(pact.group_members)}

\* the PactResolvedEvents emitted for pact k
SettlementEvents(k) ==
  {j \in 1..Len(pact_resolved_events) :
     /\ pact_resolved_events[j].creator = k[1]
     /\ pact_resolved_events[j].pact_id = k[2]}

\* the pact named by the latest committed transaction
LastKey == <<last.creator, last.index>>

\* the step commits a resolve_pact, resp. a cancel_pact (on pact LastKey')
ResolveStep ==
  /\ last'.op = "resolve_pact"
  /\ Len(pact_resolved_events') > Len(pact_resolved_events)

CancelStep ==
  /\ last'.op = "cancel_pact"
  /\ Len(pact_resolved_events') > Len(pact_resolved_events)

\* C1: exactly-once settlement.  Every settlement emits one PactResolvedEvent,
\* and no pact ever has more than one: an Active pact has none, a committed
\* resolve_pact leaves its pact settled, and on a settled pact every
\* resolve_pact aborts with E_PACT_NOT_ACTIVE (an abort rolls the whole
\* transaction back, so no balance, escrow or fee changes).
C1_ExactlyOnceSettlement ==
  /\ \A k \in AllPacts :
       LET pact == PactAt(k) IN
       /\ Cardinality(SettlementEvents(k)) <= 1
       /\ pact.status = STATUS_ACTIVE => SettlementEvents(k) = {}
       /\ pact.status # STATUS_ACTIVE =>
            \A cb \in Balances, mb \in BalanceVectors :
              resolve_pact_abort(k[1], k[2], cb, mb) = E_PACT_NOT_ACTIVE
  /\ last.op = "resolve_pact" => PactAt(LastKey).status # STATUS_ACTIVE

\* a pact settled by resolve_pact, past its deadline, on which later calls abort
C1_Witness ==
  /\ last.op = "resolve_pact"
  /\ PactAt(LastKey).status = STATUS_FAILED
  /\ Len(PactAt(LastKey).challenge) = 1
  /\ SettlementEvents(LastKey) # {}
  /\ resolve_pact_abort(last.creator, last.index, 2, <<>>) = E_PACT_NOT_ACTIVE
  /\ now > PactAt(LastKey).deadline

\* C2 (as claimed): conservation at settlement.  An accepted resolve_pact credits accounts
\* and the fee pool by exactly what the pact held in escrow before the call,
\* debits nobody, and pays only the creator, the challenger and the members.
C2_SettlementConservation ==
  [][ResolveStep =>
       LET before == PactAt(LastKey') IN
       /\ (SumBalances(balance', Addrs) - SumBalances(balance, Addrs))
            + (protocol_fees' - protocol_fees) = EscrowTotal(before)
       /\ protocol_fees' >= protocol_fees
       /\ \A a \in Addrs : balance'[a] >= balance[a]
       /\ \A a \in Addrs \ Parties(before) : balance'[a] = balance[a]
    ]_vars

\* C3 (as claimed): every settled pact holds nothing in any of its escrows.
C3_SettledEscrowsEmpty ==
  \A k \in AllPacts :
    LET pact == PactAt(k) IN
    pact.status \in {STATUS_PASSED, STATUS_FAILED} =>
      /\ pact.escrowed_stake = 0
      /\ \A j \in 1..Len(pact.challenge) : pact.challenge[j].escrowed_challenge = 0
      /\ \A j \in 1..Len(pact.group_members) : pact.group_members[j].escrowed_stake = 0

\* C4: an Active pact holds exactly the recorded stakes: a solo pact its
\* stake_amount, a group pact each member's stake_amount, and an attached
\* challenge its challenge_stake.
C4_ActiveEscrowsExact ==
  \A k \in AllPacts :
    LET pact == PactAt(k) IN
    pact.status = STATUS_ACTIVE =>
      /\ ~pact.is_group => pact.escrowed_stake = pact.stake_amount
      /\ pact.is_group =>
           \A j \in 1..Len(pact.group_members) :
             pact.group_members[j].escrowed_stake = pact.group_members[j].stake_amount
      /\ \A j \in 1..Len(pact.challenge) :
           pact.challenge[j].escrowed_challenge = pact.challenge[j].challenge_stake

\* an Active group pact with a challenge attached: the creator's member escrow
\* and the challenge escrow hold two different recorded stakes
C4_Witness ==
  \E k \in AllPacts :
    LET pact == PactAt(k) IN
    /\ pact.status = STATUS_ACTIVE
    /\ pact.is_group
    /\ Len(pact.challenge) = 1
    /\ pact.challenge[1].escrowed_challenge # pact.group_members[1].escrowed_stake
    /\ now >= pact.deadline

\* C5: deadline gate.  On an Active pact resolve_pact aborts with
\* E_DEADLINE_NOT_REACHED while now < deadline and never does once
\* now >= deadline; an accepted resolve_pact happens at now >= deadline and no
\* pact is Passed before its deadline.
C5_DeadlineGate ==
  /\ \A k \in AllPacts :
       LET pact == PactAt(k) IN
       /\ pact.status = STATUS_ACTIVE =>
            \A cb \in Balances, mb \in BalanceVectors :
              IF now < pact.deadline
              THEN resolve_pact_abort(k[1], k[2], cb, mb) = E_DEADLINE_NOT_REACHED
              ELSE resolve_pact_abort(k[1], k[2], cb, mb) # E_DEADLINE_NOT_REACHED
       /\ pact.status = STATUS_PASSED => now >= pact.deadline
  /\ last.op = "resolve_pact" =>
       now >= PactAt(LastKey).deadline

\* a pact resolved to Passed at the very second of its deadline
C5_Witness ==
  /\ last.op = "resolve_pact"
  /\ LET pact == PactAt(LastKey) IN
     /\ pact.status = STATUS_PASSED
     /\ now = pact.deadline

\* C6: threshold correctness of a solo pact without a challenge.  A committed
\* resolve_pact with current_balance >= start_balance sets Passed, credits the
\* creator stake_amount and leaves the fee pool alone; otherwise it sets Failed,
\* credits the creator floor(stake_amount * 90 / 100) and adds the rest of
\* stake_amount to the fee pool.
C6_SoloThreshold ==
  [][ResolveStep =>
       LET k == LastKey'
           before == PactAt(k)
           after == user_pacts'[k[1]][k[2] + 1]
           returned == (before.stake_amount * 90) \div 100
       IN (~before.is_group /\ Len(before.challenge) = 0) =>
            IF last'.current_balance >= before.start_balance
            THEN /\ after.status = STATUS_PASSED
                 /\ balance' = [balance EXCEPT ![k[1]] = @ + before.stake_amount]
                 /\ protocol_fees' = protocol_fees
            ELSE /\ after.status = STATUS_FAILED
                 /\ balance' = [balance EXCEPT ![k[1]] = @ + returned]
                 /\ protocol_fees' = protocol_fees + (before.stake_amount - returned)
    ]_vars

\* an unchallenged solo pact with an odd stake resolved with the balance equal
\* to the threshold, after an earlier slashed pact left its remainder as fee
C6_Witness ==
  /\ last.op = "resolve_pact"
  /\ LET pact == PactAt(LastKey) IN
     /\ ~pact.is_group
     /\ Len(pact.challenge) = 0
     /\ pact.status = STATUS_PASSED
     /\ last.current_balance = pact.start_balance
  /\ \E j \in 1..Len(pact_resolved_events) :
       /\ ~pact_resolved_events[j].passed
       /\ pact_resolved_events[j].end_balance > 0
       /\ pact_resolved_events[j].stake_returned = 900004
       /\ protocol_fees = 100001

\* C7 (as claimed): challenge precedence.  Whatever settles a pact that has a
\* challenge attached, the fee pool gains nothing and exactly one of creator
\* and challenger receives the creator's stake plus the challenge stake.
C7_ChallengePrecedence ==
  [][(ResolveStep \/ CancelStep) =>
       LET k == LastKey'
           before == PactAt(k)
       IN Len(before.challenge) > 0 =>
            LET pot == before.stake_amount + before.challenge[1].challenge_stake IN
            /\ protocol_fees' = protocol_fees
            /\ \E winner \in {before.creator, before.challenge[1].challenger} :
                 balance' = [balance EXCEPT ![winner] = @ + pot]
    ]_vars

\* C8: resolve_pact on a challenged solo pact is winner-take-all.  With
\* current_balance >= start_balance the creator is credited stake_amount +
\* challenge_stake and the pact is Passed, otherwise the challenger is credited
\* that sum and the pact is Failed; nobody else is credited and the fee pool
\* is unchanged.
C8_ChallengedResolution ==
  [][ResolveStep =>
       LET k == LastKey'
           before == PactAt(k)
           after == user_pacts'[k[1]][k[2] + 1]
       IN (~before.is_group /\ Len(before.challenge) > 0) =>
            LET challenge == before.challenge[1]
                pot == before.stake_amount + challenge.challenge_stake
            IN /\ protocol_fees' = protocol_fees
               /\ IF last'.current_balance >= before.start_balance
                  THEN /\ after.status = STATUS_PASSED
                       /\ balance' = [balance EXCEPT ![k[1]] = @ + pot]
                  ELSE /\ after.status = STATUS_FAILED
                       /\ balance' = [balance EXCEPT ![challenge.challenger] = @ + pot]
    ]_vars

\* a challenged solo pact lost by its creator: the challenger holds both stakes
C8_Witness ==
  /\ last.op = "resolve_pact"
  /\ LET pact == PactAt(LastKey) IN
     /\ ~pact.is_group
     /\ Len(pact.challenge) = 1
     /\ pact.status = STATUS_FAILED
     /\ pact.stake_amount # pact.challenge[1].challenge_stake
     /\ balance[pact.challenge[1].challenger] = InitialBalance + pact.stake_amount
     /\ balance[pact.creator] = InitialBalance - pact.stake_amount

C10_CancelAnyActivePact ==
  /\ \A k \in AllPacts :
       PactAt(k).status = STATUS_ACTIVE => cancel_pact_abort(k[1], k[2]) = OK
  /\ last.op = "cancel_pact" =>
       LET pact == PactAt(LastKey)
           event == pact_resolved_events[Len(pact_resolved_events)]
       IN /\ pact.status = STATUS_FAILED
          /\ event.stake_returned = (pact.stake_amount * 90) \div 100
          /\ event.protocol_fee = pact.stake_amount - event.stake_returned

\* C11: only the creator can cancel.  A committed cancel_pact signed by X
\* (last'.creator) moves one Active pact stored under X to Failed, pays only X
\* and the fee pool, and leaves every other pact, of X and of every other
\* creator, exactly as it was.
C11_OnlyCreatorCancels ==
  [][CancelStep =>
       LET signer == last'.creator IN
       /\ <<signer, last'.index>> \in AllPacts
       /\ PactAt(LastKey').status = STATUS_ACTIVE
       /\ user_pacts'[signer][last'.index + 1].status = STATUS_FAILED
       /\ DOMAIN user_pacts' = DOMAIN user_pacts
       /\ \A k \in AllPacts : k # LastKey' => user_pacts'[k[1]][k[2] + 1] = PactAt(k)
       /\ \A a \in Addrs : a # signer => balance'[a] = balance[a]
    ]_vars

\* alice cancelled her pact while bob's pact stayed Active
C11_Witness ==
  /\ last.op = "cancel_pact"
  /\ PactAt(LastKey).status = STATUS_FAILED
  /\ \E k \in AllPacts : k[1] # last.creator /\ PactAt(k).status = STATUS_ACTIVE

\* C12: stake floor.  create_pact and create_group_pact with a stake below
\* MINIMUM_STAKE abort with E_INSUFFICIENT_STAKE whatever the other arguments
\* and the state are, so nothing changes: every stored pact carries a stake of
\* at least MINIMUM_STAKE, and the counter counts exactly the pacts created.
C12_StakeFloor ==
  /\ \A a \in Users, s \in Stakes \cup {0, 500}, d \in Deadlines, g \in GroupSizes :
       s < MINIMUM_STAKE =>
         /\ create_pact_abort(a, s, d) = E_INSUFFICIENT_STAKE
         /\ create_group_pact_abort(a, s, d, g) = E_INSUFFICIENT_STAKE
  /\ \A k \in AllPacts : PactAt(k).stake_amount >= MINIMUM_STAKE
  /\ pact_counter = Cardinality(AllPacts)
  /\ pact_counter = Len(pact_created_events) + Len(group_pact_created_events)

\* a creator who could open a pact with the minimum stake is refused with one
\* unit less, and with a passed deadline on top of it
C12_Witness ==
  /\ pact_counter = 1
  /\ now = 1
  /\ \E a \in Users :
       /\ create_pact_abort(a, MINIMUM_STAKE, now + 1) = OK
       /\ create_pact_abort(a, MINIMUM_STAKE - 1, now + 1) = E_INSUFFICIENT_STAKE
       /\ create_group_pact_abort(a, MINIMUM_STAKE - 1, now + 1, 2) = E_INSUFFICIENT_STAKE
       /\ create_pact_abort(a, MINIMUM_STAKE - 1, now) = E_INSUFFICIENT_STAKE

\* the latest committed transaction created the pact LastKey
CreatedLast == last.op \in {"create_pact", "create_group_pact"}

\* C13 (as claimed): create_pact and create_group_pact abort with
\* E_DEADLINE_ALREADY_PASSED whenever deadline <= now, and a pact just stored
\* has a deadline after the current time.
C13_DeadlineInFuture ==
  /\ \A a \in Users, s \in Stakes, d \in Deadlines, g \in GroupSizes :
       d <= now =>
         /\ create_pact_abort(a, s, d) = E_DEADLINE_ALREADY_PASSED
         /\ create_group_pact_abort(a, s, d, g) = E_DEADLINE_ALREADY_PASSED
  /\ CreatedLast => PactAt(LastKey).deadline > now

\* C13 (amended): with deadline <= now both creations abort, so no pact is
\* stored with a deadline at or before its creation time; the abort code is
\* E_DEADLINE_ALREADY_PASSED when the stake is at least MINIMUM_STAKE, and
\* E_INSUFFICIENT_STAKE, from the earlier assertion, when it is not.
C13_DeadlineInFutureValidStake ==
  /\ \A a \in Users, s \in Stakes, d \in Deadlines, g \in GroupSizes :
       d <= now =>
         LET code == IF s >= MINIMUM_STAKE THEN E_DEADLINE_ALREADY_PASSED
                     ELSE E_INSUFFICIENT_STAKE
         IN /\ create_pact_abort(a, s, d) = code
            /\ create_group_pact_abort(a, s, d, g) = code
  /\ CreatedLast => PactAt(LastKey).deadline > now

\* a pact was just created with the earliest deadline the clock allows, and the
\* other user, who could do the same, is refused with deadline = now
C13_Witness ==
  /\ now >= 1
  /\ CreatedLast
  /\ PactAt(LastKey).deadline = now + 1
  /\ \E a \in Users :
       /\ create_pact_abort(a, MINIMUM_STAKE, now + 1) = OK
       /\ create_pact_abort(a, MINIMUM_STAKE, now) = E_DEADLINE_ALREADY_PASSED
       /\ create_group_pact_abort(a, MINIMUM_STAKE, now, 2) = E_DEADLINE_ALREADY_PASSED

\* the step commits a create_pact, resp. a create_group_pact
CreateStep ==
  /\ last'.op = "create_pact"
  /\ Len(pact_created_events') > Len(pact_created_events)

GroupCreateStep ==
  /\ last'.op = "create_group_pact"
  /\ Len(group_pact_created_events') > Len(group_pact_created_events)

\* C14: a committed create_pact by C, whose arguments the PactCreatedEvent
\* records, debits C by exactly stake_amount and nobody else, advances the
\* counter by one, and appends at index (C's previous pact count) an Active solo
\* pact holding the stake, with token, start_balance, stake_amount and deadline
\* equal to the arguments, no challenge and is_group = false.
C14_CreatePactEffect ==
  [][CreateStep =>
       LET c == last'.creator
           args == pact_created_events'[Len(pact_created_events')]
           pact == user_pacts'[c][last'.index + 1]
       IN /\ args.creator = c
          /\ args.pact_id = pact_counter
          /\ pact_counter' = pact_counter + 1
          /\ balance' = [balance EXCEPT ![c] = @ - args.stake_amount]
          /\ protocol_fees' = protocol_fees
          /\ last'.index = Len(pacts_of(c))
          /\ Len(user_pacts'[c]) = Len(pacts_of(c)) + 1
          /\ pact.creator = c
          /\ pact.status = STATUS_ACTIVE
          /\ pact.token_address = args.token_address
          /\ pact.start_balance = args.start_balance
          /\ pact.stake_amount = args.stake_amount
          /\ pact.deadline = args.deadline
          /\ pact.escrowed_stake = args.stake_amount
          /\ pact.challenge = <<>>
          /\ pact.is_group = FALSE
          /\ pact.group_members = <<>>
    ]_vars

\* a creator's second solo pact, just created at index 1 with a stake above
\* the minimum
C14_Witness ==
  /\ last.op = "create_pact"
  /\ last.index = 1
  /\ Len(user_pacts[last.creator]) = 2
  /\ PactAt(LastKey).stake_amount = MINIMUM_STAKE + 5
  /\ PactAt(LastKey).status = STATUS_ACTIVE
  /\ balance[last.creator] = InitialBalance - (MINIMUM_STAKE + 5)

\* the arguments of every committed creation, solo or group, as the two
\* creation event logs record them
CreationEvents ==
  {[creator |-> e.creator, pact_id |-> e.pact_id, token_address |-> e.token_address,
    start_balance |-> e.start_balance, stake_amount |-> e.stake_amount,
    deadline |-> e.deadline, is_group |-> FALSE] :
     e \in {pact_created_events[j] : j \in 1..Len(pact_created_events)}}
  \cup
  {[creator |-> e.creator, pact_id |-> e.pact_id, token_address |-> e.token_address,
    start_balance |-> e.start_balance, stake_amount |-> e.stake_amount,
    deadline |-> e.deadline, is_group |-> TRUE] :
     e \in {group_pact_created_events[j] : j \in 1..Len(group_pact_created_events)}}

\* C15: a committed create_pact or create_group_pact leaves every existing
\* pact of every creator unchanged, fields, escrows and index alike; after it,
\* the pact at index i of a creator is the one made by that creator's (i+1)-th
\* creation, with the arguments of that creation.
C15_CreateTouchesNoOtherPact ==
  [][(CreateStep \/ GroupCreateStep) =>
       /\ \A k \in AllPacts :
            /\ k[1] \in DOMAIN user_pacts'
            /\ k[2] < Len(user_pacts'[k[1]])
            /\ user_pacts'[k[1]][k[2] + 1] = PactAt(k)
       /\ \A k \in AllPacts' :
            \E e \in CreationEvents' :
              /\ e.creator = k[1]
              /\ Cardinality({f \in CreationEvents' :
                                f.creator = k[1] /\ f.pact_id < e.pact_id}) = k[2]
              /\ LET pact == user_pacts'[k[1]][k[2] + 1] IN
                 /\ pact.creator = e.creator
                 /\ pact.token_address = e.token_address
                 /\ pact.start_balance = e.start_balance
                 /\ pact.stake_amount = e.stake_amount
                 /\ pact.deadline = e.deadline
                 /\ pact.is_group = e.is_group
    ]_vars

\* a creator's group pact was just created at index 1, after the same creator's
\* solo pact with other arguments, now settled, at index 0
C15_Witness ==
  /\ last.op = "create_group_pact"
  /\ last.index = 1
  /\ LET first == PactAt(<<last.creator, 0>>)
         second == PactAt(LastKey)
     IN /\ ~first.is_group
        /\ first.status = STATUS_PASSED
        /\ second.is_group
        /\ first.deadline # second.deadline
        /\ first.start_balance # second.start_balance

\* the PactChallengedEvents emitted for pact k
ChallengeEvents(k) ==
  {j \in 1..Len(pact_challenged_events) :
     /\ pact_challenged_events[j].creator = k[1]
     /\ pact_challenged_events[j].pact_id = k[2]}

\* every pact has at most one challenge, and it is the one that the single
\* PactChallengedEvent of the pact records: never replaced, never removed
ChallengeKept ==
  \A k \in AllPacts :
    LET pact == PactAt(k) IN
    /\ Len(pact.challenge) \in {0, 1}
    /\ Cardinality(ChallengeEvents(k)) = Len(pact.challenge)
    /\ \A j \in ChallengeEvents(k) :
         /\ pact.challenge[1].challenger = pact_challenged_events[j].challenger
         /\ pact.challenge[1].challenge_stake = pact_challenged_events[j].challenge_stake

\* C16 (as claimed): at most one challenge per pact, never replaced or removed,
\* and challenge_pact on a pact that has a challenge aborts with
\* E_ALREADY_CHALLENGED.
C16_SingleChallenge ==
  /\ ChallengeKept
  /\ \A k \in AllPacts, a \in Users, s \in Stakes :
       Len(PactAt(k).challenge) = 1 =>
         challenge_pact_abort(a, k[1], k[2], s) = E_ALREADY_CHALLENGED

\* C16 (amended): at most one challenge per pact, never replaced or removed;
\* challenge_pact on a pact that has a challenge always aborts, with
\* E_ALREADY_CHALLENGED when the call passes the assertions made before it
\* (stake at least MINIMUM_STAKE, challenger other than the creator, pact
\* Active, now before the deadline) and with the code of the first of those
\* that fails otherwise.
C16_SingleChallengeInOrder ==
  /\ ChallengeKept
  /\ \A k \in AllPacts, a \in Users, s \in Stakes :
       LET pact == PactAt(k) IN
       Len(pact.challenge) = 1 =>
         challenge_pact_abort(a, k[1], k[2], s) =
           IF s < MINIMUM_STAKE THEN E_INSUFFICIENT_STAKE
           ELSE IF a = k[1] THEN E_UNAUTHORIZED
           ELSE IF pact.status # STATUS_ACTIVE THEN E_PACT_NOT_ACTIVE
           ELSE IF now >= pact.deadline THEN E_DEADLINE_ALREADY_PASSED
           ELSE E_ALREADY_CHALLENGED

\* a challenge was just attached, and a second challenge_pact on the same pact
\* with a valid stake, before the deadline, is refused as already challenged
C16_Witness ==
  /\ last.op = "challenge_pact"
  /\ LET pact == PactAt(LastKey) IN
     /\ Len(pact.challenge) = 1
     /\ pact.status = STATUS_ACTIVE
     /\ now < pact.deadline
     /\ \E a \in Users :
          challenge_pact_abort(a, last.creator, last.index, MINIMUM_STAKE)
            = E_ALREADY_CHALLENGED

\* C17: challenge_pact is accepted only if the target pact exists, is Active,
\* now is strictly before its deadline, the challenger is not the creator and
\* the challenge stake is at least MINIMUM_STAKE; so every attached challenge
\* has a challenger other than the creator and a stake of at least
\* MINIMUM_STAKE, and at the moment it is attached the deadline is still ahead.
C17_ChallengePreconditions ==
  /\ \A a \in Addrs, c \in Addrs, i \in Indexes, s \in Stakes :
       challenge_pact_abort(a, c, i, s) = OK =>
         /\ <<c, i>> \in AllPacts
         /\ PactAt(<<c, i>>).status = STATUS_ACTIVE
         /\ now < PactAt(<<c, i>>).deadline
         /\ a # c
         /\ s >= MINIMUM_STAKE
  /\ \A k \in AllPacts :
       LET pact == PactAt(k) IN
       Len(pact.challenge) > 0 =>
         /\ pact.challenge[1].challenger # k[1]
         /\ pact.challenge[1].challenger # pact.creator
         /\ pact.challenge[1].challenge_stake >= MINIMUM_STAKE
  /\ last.op = "challenge_pact" =>
       /\ now < PactAt(LastKey).deadline
       /\ PactAt(LastKey).status = STATUS_ACTIVE

\* a challenge with a stake above the minimum was just attached, after the
\* clock had advanced, one time unit before the deadline
C17_Witness ==
  /\ last.op = "challenge_pact"
  /\ now >= 1
  /\ LET pact == PactAt(LastKey) IN
     /\ pact.deadline = now + 1
     /\ pact.challenge[1].challenge_stake = MINIMUM_STAKE + 5
     /\ pact.stake_amount = MINIMUM_STAKE

\* the members of a group pact, as a set of addresses
MemberSet(pact) == {pact.group_members[j].member : j \in 1..Len(pact.group_members)}

\* every group pact has between 1 and max_group_size members, pairwise
\* distinct and starting with the creator, and max_group_size is the one its
\* GroupPactCreatedEvent records
GroupShape ==
  \A k \in AllPacts :
    LET pact == PactAt(k) IN
    pact.is_group =>
      /\ 1 <= Len(pact.group_members)
      /\ Len(pact.group_members) <= pact.max_group_size
      /\ Cardinality(MemberSet(pact)) = Len(pact.group_members)
      /\ pact.group_members[1].member = k[1]
      /\ \E j \in 1..Len(group_pact_created_events) :
           LET e == group_pact_created_events[j] IN
           /\ e.creator = k[1]
           /\ Cardinality({f \in CreationEvents :
                             f.creator = k[1] /\ f.pact_id < e.pact_id}) = k[2]
           /\ e.max_group_size = pact.max_group_size

\* C18 (as claimed): the group shape holds, and join_group_pact aborts with
\* E_GROUP_FULL on a group at capacity, with E_ALREADY_IN_GROUP when the caller
\* is already a member, and with E_NOT_GROUP_PACT on a solo pact.
C18_GroupMembership ==
  /\ GroupShape
  /\ \A k \in AllPacts, a \in Users, s \in Stakes :
       LET pact == PactAt(k)
           code == join_group_pact_abort(a, k[1], k[2], s)
       IN /\ (pact.is_group /\ Len(pact.group_members) = pact.max_group_size)
               => code = E_GROUP_FULL
          /\ (pact.is_group /\ a \in MemberSet(pact)) => code = E_ALREADY_IN_GROUP
          /\ ~pact.is_group => code = E_NOT_GROUP_PACT

\* C18 (amended): the group shape holds, and join_group_pact always aborts on
\* a group at capacity, for a caller who is already a member, and on a solo
\* pact; the code is the one of the first assertion that fails, in the order
\* stake at least MINIMUM_STAKE, group pact (E_NOT_GROUP_PACT), Active, now
\* before the deadline, below capacity (E_GROUP_FULL), not yet a member
\* (E_ALREADY_IN_GROUP).
C18_GroupMembershipInOrder ==
  /\ GroupShape
  /\ \A k \in AllPacts, a \in Users, s \in Stakes :
       LET pact == PactAt(k)
           code == join_group_pact_abort(a, k[1], k[2], s)
           full == Len(pact.group_members) = pact.max_group_size
       IN (~pact.is_group \/ full \/ a \in MemberSet(pact)) =>
            code = IF s < MINIMUM_STAKE THEN E_INSUFFICIENT_STAKE
                   ELSE IF ~pact.is_group THEN E_NOT_GROUP_PACT
                   ELSE IF pact.status # STATUS_ACTIVE THEN E_PACT_NOT_ACTIVE
                   ELSE IF now >= pact.deadline THEN E_DEADLINE_ALREADY_PASSED
                   ELSE IF full THEN E_GROUP_FULL
                   ELSE E_ALREADY_IN_GROUP

\* a second member just joined and filled the group; with a valid stake before
\* the deadline each of the two members is refused as group full, not as
\* already in the group
C18_Witness ==
  /\ last.op = "join_group_pact"
  /\ LET pact == PactAt(LastKey) IN
     /\ Len(pact.group_members) = 2
     /\ pact.max_group_size = 2
     /\ pact.status = STATUS_ACTIVE
     /\ now < pact.deadline
     /\ \A a \in MemberSet(pact) :
          join_group_pact_abort(a, last.creator, last.index, MINIMUM_STAKE)
            = E_GROUP_FULL

\* the step commits a challenge_pact, resp. a join_group_pact (on pact LastKey')
ChallengeStep ==
  /\ last'.op = "challenge_pact"
  /\ Len(pact_challenged_events') > Len(pact_challenged_events)

JoinStep ==
  /\ last'.op = "join_group_pact"
  /\ Len(group_member_joined_events') > Len(group_member_joined_events)

C20_OnlyResolveLeavesActive ==
  [][user_pacts' # user_pacts =>
       \A k \in AllPacts :
         LET before == PactAt(k)
             after == user_pacts'[k[1]][k[2] + 1]
         IN after.status # before.status =>
              /\ before.status = STATUS_ACTIVE
              /\ after.status \in {STATUS_PASSED, STATUS_FAILED}
              /\ last'.op = "resolve_pact"
              /\ LastKey' = k
    ]_vars

\* C20 (amended): the status of a pact changes only from Active, only by a
\* committed resolve_pact or cancel_pact on that pact, and to a final status:
\* exactly once; cancel_pact always leaves Failed.
C20_OnlySettlementLeavesActive ==
  [][user_pacts' # user_pacts =>
       \A k \in AllPacts :
         LET before == PactAt(k)
             after == user_pacts'[k[1]][k[2] + 1]
         IN after.status # before.status =>
              /\ before.status = STATUS_ACTIVE
              /\ after.status \in {STATUS_PASSED, STATUS_FAILED}
              /\ last'.op \in {"resolve_pact", "cancel_pact"}
              /\ last'.op = "cancel_pact" => after.status = STATUS_FAILED
              /\ LastKey' = k
    ]_vars

\* one pact left Active through resolve_pact and is Passed, another was just
\* moved to Failed by cancel_pact
C20_Witness ==
  /\ last.op = "cancel_pact"
  /\ PactAt(LastKey).status = STATUS_FAILED
  /\ \E k \in AllPacts :
       /\ PactAt(k).status = STATUS_PASSED
       /\ Cardinality(SettlementEvents(k)) = 1

\* C21: initialization protocol.  initialize is accepted only from the
\* deployer and only while no registry exists: any other signer gets
\* E_UNAUTHORIZED, the deployer's second call E_ALREADY_INITIALIZED; right
\* after it the counter and the fee pool are 0.  Before it, create_pact and
\* create_group_pact with otherwise valid arguments abort with
\* E_NOT_INITIALIZED, so without a registry there is no pact and no event.
C21_InitializationProtocol ==
  /\ \A a \in Addrs :
       /\ initialize_abort(a) = OK <=> (a = pact_addr /\ ~registry_exists)
       /\ a # pact_addr => initialize_abort(a) = E_UNAUTHORIZED
       /\ (a = pact_addr /\ registry_exists) =>
            initialize_abort(a) = E_ALREADY_INITIALIZED
  /\ last.op = "initialize" =>
       /\ last.creator = pact_addr
       /\ registry_exists
       /\ pact_counter = 0
       /\ protocol_fees = 0
  /\ ~registry_exists =>
       /\ \A a \in Users, s \in Stakes, d \in Deadlines, g \in GroupSizes :
            (s >= MINIMUM_STAKE /\ d > now) =>
              /\ create_pact_abort(a, s, d) = E_NOT_INITIALIZED
              /\ g >= 2 => create_group_pact_abort(a, s, d, g) = E_NOT_INITIALIZED
       /\ AllPacts = {}
       /\ pact_created_events = <<>>
       /\ group_pact_created_events = <<>>
  /\ last.op \notin {"none", "tick"} => registry_exists

\* the clock ran before the deployer initialized; the registry is fresh, a
\* second initialize and a stranger's initialize are refused, and a creation
\* that was refused for want of a registry is now acceptable
C21_Witness ==
  /\ last.op = "initialize"
  /\ now = 1
  /\ registry_exists
  /\ initialize_abort(pact_addr) = E_ALREADY_INITIALIZED
  /\ initialize_abort("alice") = E_UNAUTHORIZED
  /\ create_pact_abort("alice", MINIMUM_STAKE, now + 1) = OK
  /\ create_group_pact_abort("bob", MINIMUM_STAKE, now + 1, 2) = OK

\* the pact ids carried by the creation events of both kinds, in one sequence
CreationIds ==
  [j \in 1..Len(pact_created_events) |-> pact_created_events[j].pact_id]
  \o [j \in 1..Len(group_pact_created_events) |-> group_pact_created_events[j].pact_id]

\* C22: the pact counter never decreases and moves only by a committed
\* create_pact or create_group_pact, each time by exactly 1; after every step
\* get_total_pacts is the sum over all creators of get_user_pact_count, and
\* the pact ids of the creation events are pairwise distinct (they are
\* 0 .. counter - 1).
C22_PactCounter ==
  [][ledger' # ledger =>
       /\ pact_counter' >= pact_counter
       /\ pact_counter' # pact_counter => pact_counter' = pact_counter + 1
       /\ (CreateStep \/ GroupCreateStep) <=> pact_counter' = pact_counter + 1
       /\ get_total_pacts' = SumBalances([a \in Addrs |-> get_user_pact_count(a)'], Addrs)
       /\ Len(CreationIds') = get_total_pacts'
       /\ {CreationIds'[j] : j \in 1..Len(CreationIds')} = 0..(get_total_pacts' - 1)
    ]_vars

\* two creators hold one pact each, one solo and one group, with ids 0 and 1,
\* and both are settled: the counter stayed at 2
C22_Witness ==
  /\ get_total_pacts = 2
  /\ get_user_pact_count("alice") = 1
  /\ get_user_pact_count("bob") = 1
  /\ Len(pact_created_events) = 1
  /\ Len(group_pact_created_events) = 1
  /\ \A k \in AllPacts : PactAt(k).status # STATUS_ACTIVE

Identity(pact) ==
  <<pact.creator, pact.token_address, pact.start_balance, pact.stake_amount,
    pact.deadline, pact.is_group, pact.max_group_size>>

\* C25: pacts are permanent records with immutable identity.  No step removes
\* or reorders a pact: every creator keeps its pacts, its pact count never
\* decreases, and every existing pact stays at its index with creator,
\* token_address, start_balance, stake_amount, deadline, is_group and
\* max_group_size unchanged.
C25_PermanentIdentity ==
  [][user_pacts' # user_pacts =>
       /\ DOMAIN user_pacts \subseteq DOMAIN user_pacts'
       /\ \A c \in DOMAIN user_pacts : Len(user_pacts'[c]) >= Len(user_pacts[c])
       /\ \A a \in Addrs : get_user_pact_count(a)' >= get_user_pact_count(a)
       /\ \A k \in AllPacts :
            Identity(user_pacts'[k[1]][k[2] + 1]) = Identity(PactAt(k))
    ]_vars

\* a group pact that was joined and then settled still carries the arguments
\* of its creation event
C25_Witness ==
  /\ last.op = "resolve_pact"
  /\ LET pact == PactAt(LastKey) IN
     /\ pact.is_group
     /\ Len(pact.group_members) = 2
     /\ pact.status # STATUS_ACTIVE
     /\ \E j \in 1..Len(group_pact_created_events) :
          LET e == group_pact_created_events[j] IN
          Identity(pact) = <<e.creator, e.token_address, e.start_balance,
                             e.stake_amount, e.deadline, TRUE, e.max_group_size>>

\* C26 as stated: a create_pact followed, after the deadline, with no challenge
\* and no other operation by the creator in between, by a resolve_pact with
\* current_balance >= start_balance restores the creator's balance to its
\* value before create_pact, and the resolution leaves the fee pool unchanged.
C26_RoundTrip ==
  probe.phase = "closed" =>
    /\ balance[probe.creator] = probe.balance
    /\ protocol_fees = probe.fees_at_close

\* C26 amended: when, in addition, no operation of another account in between
\* has moved the creator's balance or the fee pool, the round trip restores
\* the creator's balance and the fee pool to their values before create_pact;
\* and in every case the resolution credits the creator with exactly the
\* stake and leaves the fee pool as it found it.
C26_RoundTripUndisturbed ==
  probe.phase = "closed" =>
    /\ protocol_fees = probe.fees_at_close
    /\ ~probe.disturbed =>
         /\ balance[probe.creator] = probe.balance
         /\ protocol_fees = probe.fees

\* a round trip that other accounts' operations interleaved without touching
\* the creator's balance: the pact passed and the balance is back
C26_Witness ==
  /\ probe.phase = "closed"
  /\ ~probe.disturbed
  /\ last.op = "resolve_pact"
  /\ LastKey = <<probe.creator, probe.index>>
  /\ PactAt(LastKey).status = STATUS_PASSED
  /\ PactAt(LastKey).deadline <= now
  /\ balance[probe.creator] = probe.balance
  /\ \E o \in Users \ {probe.creator} : get_user_pact_count(o) > 0

\* the creator's cancel_pact call on pact pact_index, executed with the effect
\* that some member's escrow or some member's balance differs afterwards
CancelMovesMember(creator_addr, pact_index) ==
  /\ cancel_pact(creator_addr, pact_index)
  /\ UNCHANGED probe
  /\ LET pact == borrow_pact(creator_addr, pact_index) IN
     \E j \in 1..Len(pact.group_members) :
        \/ user_pacts'[creator_addr][pact_index + 1].group_members[j].escrowed_stake
             # pact.group_members[j].escrowed_stake
        \/ balance'[pact.group_members[j].member] # balance[pact.group_members[j].member]

\* C27: in no reachable state does cancel_pact, called by the creator on a
\* group pact, move a member's escrowed stake: after the call every member's
\* escrow holds the same amount as before and no member's balance has changed.
C27_GroupCancelMovesNothing ==
  \A k \in AllPacts :
     PactAt(k).is_group => ~ENABLED CancelMovesMember(k[1], k[2])

\* the creator of an active group pact with two funded members calls
\* cancel_pact; the call is executed (and aborts in the coin extraction)
C27_Witness ==
  \E k \in AllPacts :
     /\ PactAt(k).is_group
     /\ PactAt(k).status = STATUS_ACTIVE
     /\ Len(PactAt(k).group_members) = 2
     /\ \A j \in 1..2 : PactAt(k).group_members[j].escrowed_stake > 0
     /\ cancel_pact_abort(k[1], k[2]) = EINSUFFICIENT_BALANCE
     /\ ENABLED (cancel_pact(k[1], k[2]) /\ UNCHANGED probe)

\* C28: shape of the pact records.  In every reachable state a solo pact has
\* max_group_size = 0 and no group members; a group pact has
\* max_group_size >= 2, its first member is its creator with stake_amount and
\* start_balance equal to the pact's own, and its pact-level escrowed_stake
\* holds 0.
C28_PactShape ==
  \A k \in AllPacts :
    LET pact == PactAt(k) IN
    IF ~pact.is_group
    THEN /\ pact.max_group_size = 0
         /\ pact.group_members = <<>>
    ELSE /\ pact.max_group_size >= 2
         /\ Len(pact.group_members) >= 1
         /\ pact.group_members[1].member = pact.creator
         /\ pact.creator = k[1]
         /\ pact.group_members[1].stake_amount = pact.stake_amount
         /\ pact.group_members[1].start_balance = pact.start_balance
         /\ pact.escrowed_stake = 0

\* a settled solo pact beside a joined group pact that was settled too
C28_Witness ==
  \E k \in AllPacts, g \in AllPacts :
     /\ ~PactAt(k).is_group
     /\ PactAt(k).status # STATUS_ACTIVE
     /\ PactAt(g).is_group
     /\ Len(PactAt(g).group_members) = 2
     /\ PactAt(g).group_members[2].stake_amount # PactAt(g).stake_amount
     /\ PactAt(g).status # STATUS_ACTIVE

\* C29: resolver independence.  Every committed resolve_pact is, with the same
\* target and the same reported balances, the step of every other resolver
\* too: same resulting status, same credits to creator, challenger, members
\* and fee pool; and an account without a stake in the pact, the resolver
\* included, is credited nothing.
C29_ResolverIndependence ==
  [][ResolveStep =>
       /\ \A r \in Addrs :
            resolve_pact(r, last'.creator, last'.index, last'.current_balance,
                         last'.member_balances)
       /\ \A r \in Addrs \ Parties(borrow_pact(last'.creator, last'.index)) :
            balance'[r] = balance[r]
    ]_vars

\* a failed unchallenged solo pact was resolved: the slashed part is in the
\* fee pool and the two accounts other than the creator, one of which was the
\* resolver, hold what they held
C29_Witness ==
  /\ last.op = "resolve_pact"
  /\ ~PactAt(LastKey).is_group
  /\ PactAt(LastKey).status = STATUS_FAILED
  /\ Len(PactAt(LastKey).challenge) = 0
  /\ protocol_fees = protocol_fee_of(PactAt(LastKey).stake_amount)
  /\ \A r \in Addrs \ {last.creator} : balance[r] = InitialBalance

\* a pact in a terminal state
Settled(k) == PactAt(k).status \in {STATUS_PASSED, STATUS_FAILED}

\* the three kinds of escrow a pact holds
Escrows(pact) ==
  <<pact.escrowed_stake,
    [j \in 1..Len(pact.challenge) |-> pact.challenge[j].escrowed_challenge],
    [j \in 1..Len(pact.group_members) |-> pact.group_members[j].escrowed_stake]>>

\* every call of the four operations that names pact k is rejected
AllCallsRejected(k) ==
  /\ \A a \in Addrs, s \in Stakes : challenge_pact_abort(a, k[1], k[2], s) # OK
  /\ \A a \in Addrs, s \in Stakes : join_group_pact_abort(a, k[1], k[2], s) # OK
  /\ \A cb \in Balances, mb \in BalanceVectors \cup {<<>>} :
        resolve_pact_abort(k[1], k[2], cb, mb) # OK
  /\ cancel_pact_abort(k[1], k[2]) # OK

\* C30: terminal states are absorbing.  Once a pact is Passed or Failed, every
\* challenge_pact, join_group_pact, resolve_pact and cancel_pact naming it is
\* rejected, at most one cancel_pact or resolve_pact has ever succeeded on it,
\* its status never changes again and no funds enter or leave its escrows.
C30_TerminalAbsorbing ==
  /\ [](\A k \in AllPacts :
          /\ Settled(k) => AllCallsRejected(k)
          /\ Cardinality(SettlementEvents(k)) <= 1
          /\ Settled(k) <=> Cardinality(SettlementEvents(k)) = 1)
  /\ [][\A k \in AllPacts :
          Settled(k) =>
            /\ user_pacts'[k[1]][k[2] + 1].status = PactAt(k).status
            /\ Escrows(user_pacts'[k[1]][k[2] + 1]) = Escrows(PactAt(k))
      ]_vars

\* a pact cancelled before its deadline and never challenged: an account with
\* funds for a challenge is turned away for the status alone, after the
\* clock has advanced past the cancellation
C30_Witness ==
  \E k \in AllPacts :
     /\ Settled(k)
     /\ now < PactAt(k).deadline
     /\ Len(PactAt(k).challenge) = 0
     /\ \E a \in Users \ {k[1]} :
          /\ balance[a] >= MINIMUM_STAKE
          /\ challenge_pact_abort(a, k[1], k[2], MINIMUM_STAKE) = E_PACT_NOT_ACTIVE
     /\ last.op = "tick"

\* what the pacts named in keys hold in escrow, all together
RECURSIVE SumEscrows(_)
SumEscrows(keys) ==
  IF keys = {} THEN 0
  ELSE LET k == CHOOSE x \in keys : TRUE
       IN EscrowTotal(PactAt(k)) + SumEscrows(keys \ {k})

\* all native currency there is: account balances, every escrow of every
\* pact, and the fee pool
TotalFunds == SumBalances(balance, Addrs) + SumEscrows(AllPacts) + protocol_fees

\* C31: global conservation of funds.  In every reachable state the sum of all
\* account balances, all solo escrows, all challenge escrows, all group-member
\* escrows and the fee pool is what the accounts held at the start: across
\* every sequence of operations it stays constant, and no operation creates
\* or destroys native currency.
C31_Conservation == TotalFunds = Cardinality(Addrs) * InitialBalance

\* funds have moved in every way: a challenged pact was settled, the fee pool
\* holds a slashed part, and a pact still holds an escrow
C31_Witness ==
  /\ protocol_fees > 0
  /\ SumEscrows(AllPacts) > 0
  /\ \E k \in AllPacts : PactAt(k).status # STATUS_ACTIVE /\ Len(PactAt(k).challenge) = 1

\* a pact that is settled and holds nothing in any escrow
PaidOut(k) == PactAt(k).status # STATUS_ACTIVE /\ EscrowTotal(PactAt(k)) = 0

\* C32 (as claimed): no stake is locked forever.  An Active pact whose
\* deadline has come always has a resolve_pact call that succeeds, and when
\* time advances and enabled resolutions are eventually taken, every pact
\* eventually is Passed or Failed with every escrow it held, the challenge
\* stake included, paid out; pacts and settlements being permanent, from
\* some time on every pact there is has been paid out.
C32_NoStakeLockedForever ==
  /\ [](\A k \in AllPacts :
          (PactAt(k).status = STATUS_ACTIVE /\ now >= PactAt(k).deadline) =>
             \E cb \in Balances, mb \in BalanceVectors \cup {<<>>} :
                resolve_pact_abort(k[1], k[2], cb, mb) = OK)
  /\ <>[](\A k \in AllPacts : PaidOut(k))

\* the protocol_fee fields of all PactResolvedEvents emitted so far, summed
EventFees ==
  SumSeq([j \in 1..Len(pact_resolved_events) |-> pact_resolved_events[j].protocol_fee], 1)

\* the step is a resolution of a group pact in which some member is below
\* the member's start_balance
GroupFailStep ==
  /\ ResolveStep
  /\ LET before == PactAt(LastKey') IN
     /\ before.is_group
     /\ ~check_all_members_passed(before.group_members, last'.member_balances)

\* the step is a resolution of a solo pact without a challenge that fails
SoloFailStep ==
  /\ ResolveStep
  /\ LET before == PactAt(LastKey') IN
     /\ ~before.is_group
     /\ Len(before.challenge) = 0
     /\ ~solo_passed(last'.current_balance, before.start_balance)

\* C33: the fee pool is monotone and fully accounted for.  It never
\* decreases; it changes only in a failed unchallenged solo resolution, a
\* cancel_pact, or a group resolution with at least one failing member; and in
\* every reachable state it equals the sum of the protocol_fee fields of all
\* PactResolvedEvents emitted so far, which is also what get_protocol_fees
\* reports once the registry exists.
C33_FeePoolAccounted ==
  /\ [](/\ protocol_fees = EventFees
        /\ get_protocol_fees = EventFees)
  /\ [][/\ protocol_fees' >= protocol_fees
        /\ protocol_fees' # protocol_fees => SoloFailStep \/ CancelStep \/ GroupFailStep
      ]_vars

\* a two-member group pact was resolved with one member passing and one
\* failing: the pool holds the failing member's stake, the event reports it
C33_Witness ==
  /\ last.op = "resolve_pact"
  /\ PactAt(LastKey).is_group
  /\ Len(PactAt(LastKey).group_members) = 2
  /\ LET e == pact_resolved_events[Len(pact_resolved_events)] IN
     /\ e.protocol_fee > 0
     /\ e.stake_returned > 0
     /\ protocol_fees = e.protocol_fee

\* who takes part in a pact: the challenger and the members, in order
Participants(pact) ==
  <<[j \in 1..Len(pact.challenge) |-> pact.challenge[j].challenger],
    [j \in 1..Len(pact.group_members) |-> pact.group_members[j].member]>>

\* C34: participants are frozen at the deadline.  Time never goes back; at any
\* time >= a pact's deadline every challenge_pact and join_group_pact naming it
\* is rejected, and at any time < its deadline every resolve_pact is; so a
\* committed challenge or join happens before the deadline, a committed
\* resolve_pact at or after it, and from the deadline on the challenge and the
\* member list of the pact are those that resolution sees.
C34_FrozenAtDeadline ==
  /\ [](\A k \in AllPacts :
          IF now >= PactAt(k).deadline
          THEN /\ \A a \in Addrs, s \in Stakes :
                    challenge_pact_abort(a, k[1], k[2], s) # OK
               /\ \A a \in Addrs, s \in Stakes :
                    join_group_pact_abort(a, k[1], k[2], s) # OK
          ELSE \A cb \in Balances, mb \in BalanceVectors \cup {<<>>} :
                    resolve_pact_abort(k[1], k[2], cb, mb) # OK)
  /\ [][/\ now' >= now
        /\ (ChallengeStep \/ JoinStep) => now < PactAt(LastKey').deadline
        /\ ResolveStep => now >= PactAt(LastKey').deadline
        /\ user_pacts' # user_pacts =>
             \A k \in AllPacts :
                now >= PactAt(k).deadline =>
                   Participants(user_pacts'[k[1]][k[2] + 1]) = Participants(PactAt(k))
      ]_vars

\* a group pact with a free place, Active at its deadline: an account with
\* funds that is not a member is turned away as joiner and as challenger for
\* the deadline alone, and the pact can be resolved
C34_Witness ==
  \E k \in AllPacts :
     /\ PactAt(k).status = STATUS_ACTIVE
     /\ PactAt(k).is_group
     /\ now = PactAt(k).deadline
     /\ Len(PactAt(k).group_members) < PactAt(k).max_group_size
     /\ \E a \in Users \ {k[1]} :
          /\ balance[a] >= MINIMUM_STAKE
          /\ join_group_pact_abort(a, k[1], k[2], MINIMUM_STAKE) = E_DEADLINE_ALREADY_PASSED
          /\ challenge_pact_abort(a, k[1], k[2], MINIMUM_STAKE) = E_DEADLINE_ALREADY_PASSED
     /\ resolve_pact_abort(k[1], k[2], 1, <<1>>) = OK

\* C35 (as claimed): the settlement arithmetic never overflows the machine
\* word for any pact that can be created: whatever stakes the creator and the
\* members could fund, stake_amount * 90 in a failed resolution or
\* cancellation and the sums of member stakes in group resolution stay within
\* the word, so no settlement is rejected by an arithmetic abort.
C35_NoArithmeticAbort == probe.settled => ~probe.aborted


\* ------------------------------------------------------------------
\* C36
\* ------------------------------------------------------------------
\* the fields a pact of the extended module shares with the original module
CommonFields(pact) ==
  [creator |-> pact.creator,
   token_address |-> pact.token_address,
   start_balance |-> pact.start_balance,
   stake_amount |-> pact.stake_amount,
   deadline |-> pact.deadline,
   status |-> pact.status,
   escrowed_stake |-> pact.escrowed_stake]

\* the extension fields of a pact created by create_pact
SoloDefaults(pact) ==
  /\ Len(pact.challenge) = 0
  /\ pact.is_group = FALSE
  /\ pact.max_group_size = 0
  /\ Len(pact.group_members) = 0

EqualStates ==
  /\ balance = probe.balance
  /\ registry_exists = probe.registry_exists
  /\ pact_counter = probe.pact_counter
  /\ protocol_fees = probe.protocol_fees
  /\ pact_created_events = probe.pact_created_events
  /\ pact_resolved_events = probe.pact_resolved_events
  /\ DOMAIN user_pacts = DOMAIN probe.user_pacts
  /\ \A a \in DOMAIN user_pacts :
        /\ Len(user_pacts[a]) = Len(probe.user_pacts[a])
        /\ \A n \in 1..Len(user_pacts[a]) :
              /\ CommonFields(user_pacts[a][n]) = probe.user_pacts[a][n]
              /\ SoloDefaults(user_pacts[a][n])

\* the two modules answer a call alike: both accept it, or both reject it
\* with the same error name standing for the same number
SameAnswer(e, o) ==
  /\ e = o
  /\ e \in DOMAIN ErrorNumber =>
        /\ o \in DOMAIN original_ErrorNumber
        /\ ErrorNumber[e] = original_ErrorNumber[o]

SameAnswers ==
  /\ \A a \in Addrs : SameAnswer(initialize_abort(a), original_initialize_abort(probe, a))
  /\ \A a \in Users, s \in Stakes, d \in Deadlines :
        SameAnswer(create_pact_abort(a, s, d), original_create_pact_abort(probe, a, s, d))
  /\ \A c \in Users, i \in Indexes, cb \in Balances, mb \in SoloMemberBalances :
        SameAnswer(resolve_pact_abort(c, i, cb, mb),
                   original_resolve_pact_abort(probe, c, i, cb))
  /\ \A a \in Users, i \in Indexes :
        SameAnswer(cancel_pact_abort(a, i), original_cancel_pact_abort(probe, a, i))

\* C36: when the same initialize, create_pact, resolve_pact and cancel_pact
\* calls are submitted to the extended module and to the original solo-only
\* module, and no challenge_pact, create_group_pact or join_group_pact occurs,
\* then after every sequence of calls the two modules hold equal account
\* balances, registry, pact counter, fee pool, created and resolved events and
\* pacts (equal on the shared fields, with the extension fields of the
\* extended module at their solo defaults), and every next call is accepted by
\* both or rejected by both with the same error code.
C36_ExtendedRefinesOriginal == EqualStates /\ SameAnswers

\* both modules have committed a forfeiting resolution and a cancellation,
\* and reject another cancellation of the cancelled pact alike
C36_Witness ==
  /\ probe.phase = "refine"
  /\ Len(probe.pact_resolved_events) = 2
  /\ Len(pact_resolved_events) = 2
  /\ \E n \in 1..2 : /\ pact_resolved_events[n].end_balance > 0
                      /\ ~pact_resolved_events[n].passed
  /\ last.op = "cancel_pact"
  /\ probe.protocol_fees > 0
  /\ cancel_pact_abort(last.creator, last.index) = E_PACT_NOT_ACTIVE
  /\ original_cancel_pact_abort(probe, last.creator, last.index) = E_PACT_NOT_ACTIVE

====
